---- MODULE Spec2Model ----
(***************************************************************************)
(* Keepalive decision loop of claude-keepalive-status-toolbar.             *)
(*                                                                         *)
(* The keeper process (src/unnamed/part_000) runs tick(config) once from   *)
(* main() and then, unless --once was given, from an interval timer.  A    *)
(* tick is an async function: every await is a point where other callbacks *)
(* of the process, other processes and the clock may move.  Each tick body *)
(* is an activation frame with its own position (pc) and locals; the        *)
(* persisted state file and the limits cache are shared by all processes.  *)
(*                                                                         *)
(* Time is in milliseconds, as Date.now() gives it.  Utilization is kept   *)
(* in tenths of a percent (999 is 99.9%), so the threshold 100 is 1000.    *)
(***************************************************************************)
EXTENDS Integers, Sequences, FiniteSets, TLC

VARIABLES
    now,            \* the wall clock, Date.now()
    stateFile,      \* STATE_PATH, active-session-keeper.json
    limitsCache,    \* LIMITS_CACHE_PATH, usage-limits-cache.json
    dashboardCaches,\* the legacy cache-*.json files, in readdir order
    lastActivityTs, \* what getLatestActivityTimestamp finds (0: nothing)
    phase,          \* per process: "off", "main" (first tick awaited), "timer",
                    \* "failed" (ended by process.exit(1))
    config,         \* per process: the parsed command line
    tickInProgress, \* per process: the module-level flag
    frames,         \* per process: the tick bodies in execution
    nextFire,       \* per process: when the interval timer is next due
    skips,          \* per process: calls of tick returned at the guard
                    \* while the body in execution runs
    starts,         \* processes started so far
    historyFile,    \* usage-history.json
    pricingFile,    \* config/pricing.json
    pauseCmd,       \* the last operator pause command: its deadline t + P
    lastCall        \* the last call made of one of the core's functions

vars == <<now, stateFile, limitsCache, dashboardCaches, lastActivityTs, phase, config,
          tickInProgress, frames, nextFire, skips, starts, pauseCmd, lastCall,
          historyFile, pricingFile>>

----------------------------------------------------------------------------
(* Bounds of the model *)

ClockStepMinutes == 10
MaxClockMinutes == 40
MaxStarts == 3
MaxSkips == 1

(* Program constants *)

DefaultIntervalMinutes == 10
DefaultActiveMinutes == 10
DefaultCooldownMinutes == 10
DefaultReauthCooldownMinutes == 60
MenuPauseMinutes == 30
TickLimitsMaxAgeMinutes == 360
HistoryKeep == 19

MsPerMinute == 60 * 1000

Procs == {"daemon", "menu"}

----------------------------------------------------------------------------
(* The persisted keepalive state.  A JSON object has a set of keys; a key  *)
(* that is absent reads as undefined.  exists = FALSE is readState's null. *)

NullState ==
    [exists |-> FALSE, has |-> {}, lastLaunch |-> 0, history |-> <<>>,
     pauseUntil |-> 0, lastReauthOpen |-> 0]

EmptyObject == [NullState EXCEPT !.exists = TRUE]

\* state && typeof state === 'object' ? { ...state } : {}
SpreadState(state) == IF state.exists THEN state ELSE EmptyObject

\* state?.field as a condition: present and not 0
Truthy(state, field) == state.exists /\ field \in state.has /\ state[field] # 0

\* Array.prototype.slice(-n)
SliceLast(seq, n) ==
    IF Len(seq) <= n THEN seq ELSE SubSeq(seq, Len(seq) - n + 1, Len(seq))

\* readState: the file's JSON, or null when it is missing or unreadable
readState == stateFile

----------------------------------------------------------------------------
(* Usage limits *)

NullLimit == [kind |-> "null", utilization |-> 0]
Util(u) == [kind |-> "num", utilization |-> u]

\* a utilization given in percent, in the model's tenths of a percent
Percent(p) == p * 10

\* a utilization that is no finite number: NaN, an infinity, a string, or
\* none at all
NotANumber == [kind |-> "nan", utilization |-> 0]
Infinite == [kind |-> "inf", utilization |-> 0]
NonNumber == [kind |-> "str", utilization |-> 0]

\* the value of a && b && ... in JavaScript is its first falsy operand: of
\* the JavaScript values the model needs "true", "false" and "null"
ToBoolean(value) == value = "true"

\* limitOk with <= for <
limitOkInclusive(limit) ==
    IF limit.kind = "null" THEN "null"
    ELSE IF /\ limit.kind \in {"num", "nan", "inf"}
            /\ limit.kind = "num"
            /\ limit.utilization <= Percent(100)
    THEN "true" ELSE "false"

\* limit && typeof limit.utilization === 'number' &&
\* Number.isFinite(limit.utilization) && limit.utilization < 100
limitOk(limit) ==
    IF limit.kind = "null" THEN "null"
    ELSE IF /\ limit.kind \in {"num", "nan", "inf"}
            /\ limit.kind = "num"
            /\ limit.utilization < Percent(100)
    THEN "true" ELSE "false"

NoLimits == [five_hour |-> NullLimit, seven_day |-> NullLimit]

NullInfo ==
    [isNull |-> TRUE, limits |-> NoLimits, stale |-> FALSE, ageMinutes |-> 0,
     errorCode |-> "none"]

NoCache == [valid |-> FALSE, timestamp |-> 0, limits |-> NoLimits]

\* Math.round of a non-negative quotient
RoundDiv(a, b) == (2 * a + b) \div (2 * b)

----------------------------------------------------------------------------
(* The limits cache and the usage-limits lookup *)

\* the staleness test with >= for >
CacheResultStaleAtLimit(limits, timestamp, maxAgeMinutes, allowStale, t) ==
    LET ageMs == t - timestamp
        maxAgeMs == maxAgeMinutes * MsPerMinute
        stale == ageMs >= maxAgeMs
    IN  IF stale /\ ~allowStale
        THEN NullInfo
        ELSE [isNull |-> FALSE, limits |-> limits, stale |-> stale,
              ageMinutes |-> RoundDiv(ageMs, MsPerMinute), errorCode |-> "none"]

\* const ageMs = Date.now() - ts; const stale = ageMs > maxAgeMs;
\* if (stale && !allowStale) return null;
\* return { limits, stale, ageMinutes: Math.round(ageMs / 60000) }
CacheResult(limits, timestamp, maxAgeMinutes, allowStale, t) ==
    LET ageMs == t - timestamp
        maxAgeMs == maxAgeMinutes * MsPerMinute
        stale == ageMs > maxAgeMs
    IN  IF stale /\ ~allowStale
        THEN NullInfo
        ELSE [isNull |-> FALSE, limits |-> limits, stale |-> stale,
              ageMinutes |-> RoundDiv(ageMs, MsPerMinute), errorCode |-> "none"]

\* the loop of readDashboardCache: the valid entry with the greatest
\* timestamp, the first found on a tie
RECURSIVE BestDashboardEntry(_, _)
BestDashboardEntry(files, best) ==
    IF files = <<>> THEN best
    ELSE LET e == Head(files)
             next == IF e.valid /\ (~best.valid \/ e.timestamp > best.timestamp)
                     THEN e ELSE best
         IN  BestDashboardEntry(Tail(files), next)

readDashboardCache(maxAgeMinutes, allowStale, t, files) ==
    LET best == BestDashboardEntry(files, NoCache)
    IN  IF ~best.valid THEN NullInfo
        ELSE CacheResult(best.limits, best.timestamp, maxAgeMinutes, allowStale, t)

\* a lookup that compares the limits cache file with the legacy files and
\* takes the newer entry
readLimitsCacheNewest(maxAgeMinutes, allowStale, t, cache, files) ==
    LET best == BestDashboardEntry(files, cache)
    IN  IF ~best.valid THEN NullInfo
        ELSE CacheResult(best.limits, best.timestamp, maxAgeMinutes, allowStale, t)

\* readLimitsCache: the limits cache file when it parses and has a timestamp
\* and limits; the legacy files when reading it throws
readLimitsCache(maxAgeMinutes, allowStale, t, cache, files) ==
    IF cache.valid
    THEN CacheResult(cache.limits, cache.timestamp, maxAgeMinutes, allowStale, t)
    ELSE readDashboardCache(maxAgeMinutes, allowStale, t, files)

\* the limits written under the key of the legacy files, { timestamp, data },
\* where readLimitsCache finds no payload.limits
writeLimitsCacheAsLegacy(limits, t) == [valid |-> FALSE, timestamp |-> t, limits |-> limits]

\* writeLimitsCache: { timestamp: Date.now(), limits }
writeLimitsCache(limits, t) == [valid |-> TRUE, timestamp |-> t, limits |-> limits]

\* how the request ends: response.ok; a response that is not ok; one that is
\* not ok and says the token has expired (401); fetch throws
HttpOutcomes == {"ok", "notOk", "expired", "throws"}

\* cached ? { limits: cached.limits, stale: cached.stale, ageMinutes:
\* cached.ageMinutes } : null
CachedOrNull(cached) ==
    IF cached.isNull THEN NullInfo
    ELSE [isNull |-> FALSE, limits |-> cached.limits, stale |-> cached.stale,
          ageMinutes |-> cached.ageMinutes, errorCode |-> "none"]

\* the lookup of the earlier core: if (!token) return null
fetchUsageLimitsNoTokenNull(allowStale, allowCache, maxAgeMinutes, token, http, data, t, cache, files) ==
    IF ~token
    THEN [info |-> NullInfo, cache |-> cache]
    ELSE IF http = "throws"
    THEN [info  |-> IF ~allowCache THEN NullInfo
                    ELSE CachedOrNull(readLimitsCache(maxAgeMinutes, allowStale, t,
                                                      cache, files)),
          cache |-> cache]
    ELSE IF http # "ok"
    THEN [info  |-> IF ~allowCache THEN NullInfo
                    ELSE CachedOrNull(readLimitsCache(maxAgeMinutes, allowStale, t,
                                                      cache, files)),
          cache |-> cache]
    ELSE [info  |-> [isNull |-> FALSE, limits |-> data, stale |-> FALSE,
                     ageMinutes |-> 0, errorCode |-> "none"],
          cache |-> writeLimitsCache(data, t)]

\* fetchUsageLimits: the result and what the call writes to the limits cache
\* file (a write that fails is swallowed and leaves the file as it was).
\* token: whether getOAuthToken found a credential; http: how the request
\* ended; data: the limits read from the body of a successful response.
fetchUsageLimits(allowStale, allowCache, maxAgeMinutes, token, http, data, t, cache, files) ==
    IF ~token
    THEN [info  |-> IF ~allowCache THEN NullInfo
                    ELSE CachedOrNull(readLimitsCache(maxAgeMinutes, allowStale, t,
                                                      cache, files)),
          cache |-> cache]
    ELSE IF http = "throws"
    THEN [info  |-> IF ~allowCache THEN NullInfo
                    ELSE CachedOrNull(readLimitsCache(maxAgeMinutes, allowStale, t,
                                                      cache, files)),
          cache |-> cache]
    ELSE IF http # "ok"
    THEN [info  |-> IF ~allowCache THEN NullInfo
                    ELSE CachedOrNull(readLimitsCache(maxAgeMinutes, allowStale, t,
                                                      cache, files)),
          cache |-> cache]
    ELSE [info  |-> [isNull |-> FALSE, limits |-> data, stale |-> FALSE,
                     ageMinutes |-> 0, errorCode |-> "none"],
          cache |-> writeLimitsCache(data, t)]

\* fetchUsageLimits as the keeper and the menu read its result: a response
\* saying the token has expired gives a result with errorCode
\* 'token_expired', carrying what the cache holds, if anything
fetchUsageLimitsReporting(allowStale, allowCache, maxAgeMinutes, token, http, data, t, cache, files) ==
    IF token /\ http = "expired"
    THEN LET cached == IF allowCache
                       THEN readLimitsCache(maxAgeMinutes, allowStale, t, cache, files)
                       ELSE NullInfo
         IN  [info  |-> [cached EXCEPT !.isNull = FALSE, !.errorCode = "token_expired"],
              cache |-> cache]
    ELSE fetchUsageLimits(allowStale, allowCache, maxAgeMinutes, token, http, data, t,
                          cache, files)

----------------------------------------------------------------------------
(* Command lines and parseArgs *)

Flag(name) == [name |-> name, value |-> 0]
Opt(name, value) == [name |-> name, value |-> value]

DefaultConfig ==
    [once |-> FALSE, dryRun |-> FALSE,
     intervalMinutes |-> DefaultIntervalMinutes,
     activeMinutes |-> DefaultActiveMinutes,
     cooldownMinutes |-> DefaultCooldownMinutes,
     reauthCooldownMinutes |-> DefaultReauthCooldownMinutes,
     pauseMinutes |-> 0, resume |-> FALSE]

ApplyArg(cfg, arg) ==
    CASE arg.name = "--once" -> [cfg EXCEPT !.once = TRUE]
      [] arg.name = "--dry-run" -> [cfg EXCEPT !.dryRun = TRUE]
      [] arg.name = "--interval-minutes" -> [cfg EXCEPT !.intervalMinutes = arg.value]
      [] arg.name = "--active-minutes" -> [cfg EXCEPT !.activeMinutes = arg.value]
      [] arg.name = "--cooldown-minutes" -> [cfg EXCEPT !.cooldownMinutes = arg.value]
      [] arg.name = "--reauth-cooldown-minutes" ->
             [cfg EXCEPT !.reauthCooldownMinutes = arg.value]
      [] arg.name = "--pause-minutes" -> [cfg EXCEPT !.pauseMinutes = arg.value]
      [] arg.name = "--resume" -> [cfg EXCEPT !.resume = TRUE]
      [] OTHER -> cfg

RECURSIVE parseArgsFrom(_, _)
parseArgsFrom(cfg, argv) ==
    IF argv = <<>> THEN cfg
    ELSE parseArgsFrom(ApplyArg(cfg, Head(argv)), Tail(argv))

parseArgs(argv) == parseArgsFrom(DefaultConfig, argv)

\* the command lines of the login daemon, of the menu actions and of a run
\* from the shell
DaemonArgs == <<>>
RunOnceArgs == <<Flag("--once"), Opt("--active-minutes", 0), Opt("--cooldown-minutes", 0)>>
\* a dry run from the shell
DryRunArgs == <<Flag("--once"), Flag("--dry-run")>>
\* "Send hello anyway"
ForceOnceArgs ==
    <<Flag("--once"), Flag("--force"), Opt("--active-minutes", 0),
      Opt("--cooldown-minutes", 0)>>
PauseArgs == <<Opt("--pause-minutes", MenuPauseMinutes)>>
ResumeArgs == <<Flag("--resume")>>

CommandLines(p) ==
    IF p = "daemon" THEN {DaemonArgs}
    ELSE {RunOnceArgs, ForceOnceArgs, PauseArgs, ResumeArgs, DryRunArgs}

----------------------------------------------------------------------------
(* The decisions of tick, in the order the code takes them *)

\* a tick without the re-entrancy guard
tickNeverReturnsAtGuard(inProgress) == FALSE

\* if (tickInProgress) return;
tickReturnsAtGuard(inProgress) == inProgress

\* resume without the delete
resumeStateKeepingPause(state) == SpreadState(state)

\* const nextState = { ...state }; delete nextState.pauseUntil;
resumeState(state) ==
    [SpreadState(state) EXCEPT !.has = @ \ {"pauseUntil"}, !.pauseUntil = 0]

\* pause writing { pauseUntil } alone, as writeState({ lastLaunch, history })
\* of the earlier keeper wrote its fields alone
pauseStateAlone(state, t, cfg) ==
    [EmptyObject EXCEPT !.has = {"pauseUntil"},
                        !.pauseUntil = t + cfg.pauseMinutes * MsPerMinute]

\* nextState.pauseUntil = Date.now() + config.pauseMinutes * 60 * 1000
pauseState(state, t, cfg) ==
    [SpreadState(state) EXCEPT !.has = @ \cup {"pauseUntil"},
                               !.pauseUntil = t + cfg.pauseMinutes * MsPerMinute]

\* the paused check with <= for <
isPausedInclusive(state, t) == Truthy(state, "pauseUntil") /\ t <= state.pauseUntil

\* state?.pauseUntil && Date.now() < state.pauseUntil
isPaused(state, t) == Truthy(state, "pauseUntil") /\ t < state.pauseUntil

\* the activity check with < for <=
isActiveStrict(lastActivity, t, cfg) ==
    lastActivity # 0 /\ t - lastActivity < cfg.activeMinutes * MsPerMinute

\* lastActivity && now - lastActivity <= activeWindowMs
isActive(lastActivity, t, cfg) ==
    lastActivity # 0 /\ t - lastActivity <= cfg.activeMinutes * MsPerMinute

\* the re-auth cooldown with <= for <
reauthCooldownActiveInclusive(state, t, cfg) ==
    /\ Truthy(state, "lastReauthOpen")
    /\ t - state.lastReauthOpen <= cfg.reauthCooldownMinutes * MsPerMinute

\* state?.lastReauthOpen && now - state.lastReauthOpen < reauthCooldownMs
reauthCooldownActive(state, t, cfg) ==
    /\ Truthy(state, "lastReauthOpen")
    /\ t - state.lastReauthOpen < cfg.reauthCooldownMinutes * MsPerMinute

\* launchClaudeApp: the promise's value, as launchClaudeHello's
launchClaudeApp(dryRun, spawnOk) == IF dryRun THEN TRUE ELSE spawnOk

\* a re-auth write that records a launch as well
reauthStateRecordingLaunch(state, t) ==
    [SpreadState(state) EXCEPT !.has = @ \cup {"lastReauthOpen", "lastLaunch"},
                               !.lastReauthOpen = t, !.lastLaunch = t]

\* nextState.lastReauthOpen = now
reauthState(state, t) ==
    [SpreadState(state) EXCEPT !.has = @ \cup {"lastReauthOpen"},
                               !.lastReauthOpen = t]

\* the limits gate without its staleness check
limitsGateSkipsIgnoringStale(info) ==
    \/ ~ToBoolean(limitOk(info.limits.five_hour))
    \/ ~ToBoolean(limitOk(info.limits.seven_day))

\* !okFive || !okSeven || limitsInfo.stale
limitsGateSkips(info) ==
    \/ ~ToBoolean(limitOk(info.limits.five_hour))
    \/ ~ToBoolean(limitOk(info.limits.seven_day))
    \/ info.stale

\* the cooldown with <= for <
cooldownActiveInclusive(state, t, cfg) ==
    Truthy(state, "lastLaunch") /\ t - state.lastLaunch <= cfg.cooldownMinutes * MsPerMinute

\* state?.lastLaunch && now - state.lastLaunch < cooldownMs
cooldownActive(state, t, cfg) ==
    Truthy(state, "lastLaunch") /\ t - state.lastLaunch < cfg.cooldownMinutes * MsPerMinute

\* launchClaudeHello: the promise's value.  A dry run resolves true without
\* spawning; otherwise the child's spawn event resolves true, its error
\* event false.
launchClaudeHello(dryRun, spawnOk) == IF dryRun THEN TRUE ELSE spawnOk

\* the launch recorded whatever the promise's value, as the earlier keeper,
\* which did not await it, recorded it
tickRecordsLaunchAlways(launched) == TRUE

\* if (!launched) return;
tickRecordsLaunch(launched) == launched

\* the history kept one entry too long: slice(-20)
nextHistoryKeepingTwenty(state, t) ==
    Append(IF state.exists /\ "history" \in state.has
           THEN SliceLast(state.history, HistoryKeep + 1) ELSE <<>>, t)

\* Array.isArray(state?.history) ? state.history.slice(-19) : [], then push(now)
nextHistory(state, t) ==
    Append(IF state.exists /\ "history" \in state.has
           THEN SliceLast(state.history, HistoryKeep) ELSE <<>>, t)

\* a launch written with the history as it was read
launchStateWithoutPush(state, t) ==
    [SpreadState(state) EXCEPT !.has = @ \cup {"lastLaunch", "history"},
                               !.lastLaunch = t]

\* nextState.lastLaunch = now; nextState.history = history
launchState(state, t) ==
    [SpreadState(state) EXCEPT !.has = @ \cup {"lastLaunch", "history"},
                               !.lastLaunch = t,
                               !.history = nextHistory(state, t)]

\* writeState: what JSON.stringify puts in the file
writeState(state) == state

----------------------------------------------------------------------------
(* Tick bodies *)

NewFrame ==
    [pc |-> "readState", state |-> NullState, pending |-> NullState,
     lastActivity |-> 0, now |-> 0, limitsInfo |-> NullInfo, fx |-> {},
     fetchPath |-> "none", outcome |-> "none"]

\* which way fetchUsageLimits went
FetchPath(token, http) == IF ~token THEN "noToken" ELSE http

RemoveAt(seq, i) == SubSeq(seq, 1, i - 1) \o SubSeq(seq, i + 1, Len(seq))

\* the tick body goes on to its next await
Continue(p, i, f) ==
    /\ frames' = [frames EXCEPT ![p][i] = f]
    /\ UNCHANGED <<tickInProgress, phase, nextFire,
                   historyFile, pricingFile>>

\* the tick body reaches a return statement: what is left of it is the
\* finally block, which runs in the same synchronous stretch (Return)
Finish(p, i, f, outcome) ==
    Continue(p, i, [f EXCEPT !.pc = "done", !.outcome = outcome])

\* a synchronous stretch of process p is under way: no other callback of p
\* runs, and no time worth counting passes, before it ends
InSyncStretch(p) == \E i \in 1..Len(frames[p]) : frames[p][i].pc = "done"

----------------------------------------------------------------------------
(* Transcript files and the Activity Reader *)

\* A parsed line of a transcript: the four places a timestamp is looked for
\* (0: absent; InvalidDate: a value Date cannot parse, whose getTime() is
\* NaN; a positive number: the time in ms) and whether data is a
\* hook_progress event of SessionStart.
InvalidDate == -1

NoEntry ==
    [timestamp |-> 0, snapshot |-> 0, message |-> 0, data |-> 0, sessionStart |-> FALSE]

\* The bytes of a file.  A byte is "{", "}", a newline "nl", a blank "sp",
\* a JSON scalar "1", a byte "!" that is not JSON, or "body": the members of
\* an object, which stand for the entry they parse to.
Byte(c) == [c |-> c, e |-> NoEntry]
Members(entry) == [c |-> "body", e |-> entry]

Max(a, b) == IF a > b THEN a ELSE b
Min(a, b) == IF a < b THEN a ELSE b

\* text.split('\n')
RECURSIVE SplitFrom(_, _, _)
SplitFrom(text, line, done) ==
    IF text = <<>> THEN Append(done, line)
    ELSE IF Head(text).c = "nl"
    THEN SplitFrom(Tail(text), <<>>, Append(done, line))
    ELSE SplitFrom(Tail(text), Append(line, Head(text)), done)

SplitLines(text) == SplitFrom(text, <<>>, <<>>)

\* l.trim()
RECURSIVE TrimStart(_)
TrimStart(line) ==
    IF line # <<>> /\ Head(line).c = "sp" THEN TrimStart(Tail(line)) ELSE line

RECURSIVE TrimEnd(_)
TrimEnd(line) ==
    IF line # <<>> /\ line[Len(line)].c = "sp"
    THEN TrimEnd(SubSeq(line, 1, Len(line) - 1)) ELSE line

Trim(line) == TrimEnd(TrimStart(line))

\* text.split('\n').map((l) => l.trim()).filter(Boolean)
TrimmedLines(text) ==
    LET lines == SplitLines(text)
        trimmed == [k \in DOMAIN lines |-> Trim(lines[k])]
    IN  SelectSeq(trimmed, LAMBDA l : l # <<>>)

\* JSON.parse(line): an object with members, an empty object and a scalar
\* parse; anything else throws
JsonParse(line) ==
    IF Len(line) = 3 /\ line[1].c = "{" /\ line[2].c = "body" /\ line[3].c = "}"
    THEN [ok |-> TRUE, entry |-> line[2].e]
    ELSE IF \/ Len(line) = 2 /\ line[1].c = "{" /\ line[2].c = "}"
            \/ Len(line) = 1 /\ line[1].c = "1"
    THEN [ok |-> TRUE, entry |-> NoEntry]
    ELSE [ok |-> FALSE, entry |-> NoEntry]

\* entry?.timestamp || entry?.snapshot?.timestamp ||
\* entry?.message?.timestamp || entry?.data?.timestamp
TsValue(entry) ==
    IF entry.timestamp # 0 THEN entry.timestamp
    ELSE IF entry.snapshot # 0 THEN entry.snapshot
    ELSE IF entry.message # 0 THEN entry.message
    ELSE entry.data

\* tsValue is truthy and new Date(tsValue).getTime() is not NaN
YieldsTimestamp(entry) == TsValue(entry) # 0 /\ TsValue(entry) # InvalidDate

\* what a reader returns: a time, or null
TimeValue(ts) == [kind |-> "value", ts |-> ts]
NullValue == [kind |-> "null", ts |-> 0]

\* a reader that reads the whole file
TailRangeWholeFile(size, tailBytes) == [start |-> 0, length |-> size]

\* the bytes fh.read is asked for: readSize = Math.min(fileStat.size,
\* tailBytes), from start = Math.max(0, fileStat.size - readSize)
TailRange(size, tailBytes) ==
    LET readSize == Min(size, tailBytes)
    IN  [start |-> Max(0, size - readSize), length |-> readSize]

\* readSize = Math.min(fileStat.size, headBytes), from 0
HeadRange(size, headBytes) == [start |-> 0, length |-> Min(size, headBytes)]

BytesOf(file, range) == SubSeq(file.bytes, range.start + 1, range.start + range.length)

\* the loop of readLastTranscriptTimestamp without the inner try: a line
\* that does not parse ends the scan in the outer catch (InvalidDate stands
\* for it here)
RECURSIVE LastTimestampNoInnerTry(_, _)
LastTimestampNoInnerTry(lines, i) ==
    IF i = 0 THEN 0
    ELSE LET parsed == JsonParse(lines[i])
         IN  IF ~parsed.ok THEN InvalidDate
             ELSE IF YieldsTimestamp(parsed.entry) THEN TsValue(parsed.entry)
             ELSE LastTimestampNoInnerTry(lines, i - 1)

\* the loop run from the first line on: the timestamp of the first line
\* that yields one
RECURSIVE LastTimestampFromStart(_, _)
LastTimestampFromStart(lines, i) ==
    IF i = 0 THEN 0
    ELSE LET parsed == JsonParse(lines[Len(lines) + 1 - i])
         IN  IF parsed.ok /\ YieldsTimestamp(parsed.entry)
             THEN TsValue(parsed.entry)
             ELSE LastTimestampFromStart(lines, i - 1)

\* for (let i = lines.length - 1; i >= 0; i--): the timestamp of the last
\* line that yields one (0: none does)
RECURSIVE LastTimestamp(_, _)
LastTimestamp(lines, i) ==
    IF i = 0 THEN 0
    ELSE LET parsed == JsonParse(lines[i])
         IN  IF parsed.ok /\ YieldsTimestamp(parsed.entry)
             THEN TsValue(parsed.entry)
             ELSE LastTimestamp(lines, i - 1)

\* the reader without the inner try
readLastTranscriptTimestampNoInnerTry(file, tailBytes) ==
    IF file.io # "ok" THEN NullValue
    ELSE LET lines == TrimmedLines(BytesOf(file, TailRange(Len(file.bytes), tailBytes)))
             ts == LastTimestampNoInnerTry(lines, Len(lines))
         IN  IF ts = InvalidDate THEN NullValue
             ELSE IF ts # 0 THEN TimeValue(ts) ELSE TimeValue(file.mtimeMs)

\* readLastTranscriptTimestamp(filePath, tailBytes); file.io says whether
\* stat, open and read succeed
readLastTranscriptTimestamp(file, tailBytes) ==
    IF file.io # "ok" THEN NullValue
    ELSE LET lines == TrimmedLines(BytesOf(file, TailRange(Len(file.bytes), tailBytes)))
             ts == LastTimestamp(lines, Len(lines))
         IN  IF ts # 0 THEN TimeValue(ts) ELSE TimeValue(file.mtimeMs)

\* for (let i = 0; i < lines.length; i++): the timestamp of the first
\* SessionStart hook event that has one, else the first timestamp found
\* (0: none)
RECURSIVE SessionStartTimestamp(_, _, _)
SessionStartTimestamp(lines, i, firstTimestamp) ==
    IF i > Len(lines) THEN firstTimestamp
    ELSE LET parsed == JsonParse(lines[i])
             entry == parsed.entry
             first == IF parsed.ok /\ firstTimestamp = 0 /\ YieldsTimestamp(entry)
                      THEN TsValue(entry) ELSE firstTimestamp
         IN  IF parsed.ok /\ entry.sessionStart /\ YieldsTimestamp(entry)
             THEN TsValue(entry)
             ELSE SessionStartTimestamp(lines, i + 1, first)

\* readSessionStartTimestamp(filePath, headBytes)
readSessionStartTimestamp(file, headBytes) ==
    IF file.io # "ok" THEN NullValue
    ELSE LET lines == TrimmedLines(BytesOf(file, HeadRange(Len(file.bytes), headBytes)))
             ts == SessionStartTimestamp(lines, 1, 0)
         IN  IF ts # 0 THEN TimeValue(ts) ELSE TimeValue(file.mtimeMs)

----------------------------------------------------------------------------
(* The Transcript Locator *)

\* A name is a sequence of pieces, a piece a run of characters: <<"a",
\* ".jsonl">> is a.jsonl.  A path is a sequence of names.
ToLowerCase(piece) ==
    CASE piece = "Transcript" -> "transcript"
      [] piece = "History" -> "history"
      [] piece = ".JSONL" -> ".jsonl"
      [] OTHER -> piece

Lower(name) == [k \in DOMAIN name |-> ToLowerCase(name[k])]

\* name.endsWith('.jsonl')
EndsWithJsonl(name) == name # <<>> /\ name[Len(name)] = ".jsonl"

\* filePath.split(path.sep).includes('projects') && filePath.endsWith('.jsonl')
isProjectsFile(fullPath) ==
    /\ \E k \in DOMAIN fullPath : fullPath[k] = <<"projects">>
    /\ EndsWithJsonl(fullPath[Len(fullPath)])

\* name.endsWith('.jsonl') &&
\* (lower.includes('transcript') || lower === 'history.jsonl')
looksLikeTranscriptFile(name) ==
    /\ EndsWithJsonl(name)
    /\ \/ \E k \in DOMAIN name : Lower(name)[k] = "transcript"
       \/ Lower(name) = <<"history", ".jsonl">>

shouldSkipDir(name) ==
    name = <<"node_modules">> \/ name = <<".git">> \/ name = <<"dist">>

\* what readdir and stat show of a directory entry
FileNode(name, mtimeMs, statable) ==
    [name |-> name, kind |-> "file", readable |-> TRUE, statable |-> statable,
     mtimeMs |-> mtimeMs, children |-> <<>>]

DirNode(name, readable, children) ==
    [name |-> name, kind |-> "dir", readable |-> readable, statable |-> TRUE,
     mtimeMs |-> 0, children |-> children]

\* an entry that is neither a file nor a directory
OtherNode(name) ==
    [name |-> name, kind |-> "other", readable |-> TRUE, statable |-> TRUE,
     mtimeMs |-> 0, children |-> <<>>]

\* latestPath = null, latestMtime = 0
NoLatest == [path |-> <<>>, mtimeMs |-> 0]

\* the update taking the candidate seen last
TakeCandidateAlways(latest, fullPath, entry) ==
    IF entry.statable
    THEN [path |-> fullPath, mtimeMs |-> entry.mtimeMs]
    ELSE latest

\* if (stats.mtimeMs > latestMtime) { latestMtime = ...; latestPath = ... },
\* a stat that throws being ignored
TakeCandidate(latest, fullPath, entry) ==
    IF entry.statable /\ entry.mtimeMs > latest.mtimeMs
    THEN [path |-> fullPath, mtimeMs |-> entry.mtimeMs]
    ELSE latest

\* walk(dir, depth) and its loop over the entries; dirPath is the path of
\* node
RECURSIVE walk(_, _, _, _)
RECURSIVE WalkEntries(_, _, _, _)
WalkEntries(entries, dirPath, depth, latest) ==
    IF entries = <<>> THEN latest
    ELSE LET entry == Head(entries)
             fullPath == Append(dirPath, entry.name)
             next ==
                IF entry.kind = "dir"
                THEN IF ~shouldSkipDir(entry.name)
                     THEN walk(entry, fullPath, depth - 1, latest)
                     ELSE latest
                ELSE IF entry.kind = "file"
                THEN IF isProjectsFile(fullPath) \/ looksLikeTranscriptFile(entry.name)
                     THEN TakeCandidate(latest, fullPath, entry)
                     ELSE latest
                ELSE latest
         IN  WalkEntries(Tail(entries), dirPath, depth, next)

walk(node, dirPath, depth, latest) ==
    IF depth < 0 THEN latest
    ELSE IF ~node.readable THEN latest
    ELSE WalkEntries(node.children, dirPath, depth, latest)

\* for (const dir of dirs) await walk(dir, maxDepth); a dir is a path and
\* what is found there
RECURSIVE WalkDirs(_, _, _)
WalkDirs(dirs, maxDepth, latest) ==
    IF dirs = <<>> THEN latest
    ELSE WalkDirs(Tail(dirs), maxDepth,
                  walk(Head(dirs).node, Head(dirs).path, maxDepth, latest))

\* findLatestTranscriptFile(dirs, maxDepth): NoLatest stands for null
findLatestTranscriptFile(dirs, maxDepth) == WalkDirs(dirs, maxDepth, NoLatest)

----------------------------------------------------------------------------
(* Pricing: the table, its lookup and the cost of tokens *)

\* A model name and a key of the table are sequences of pieces, a piece a
\* run of characters: <<"claude-opus-4", "-5", "-20250101">> is
\* claude-opus-4-5-20250101 and <<"claude-opus-4", "*">> is claude-opus-4*.
\* The table is the sequence of [key, rates] in the order of Object.entries.

\* key.endsWith('*')
EndsWithStar(key) == key # <<>> /\ key[Len(key)] = "*"

\* key.slice(0, -1), of a key that ends in '*'
DropLast(key) == SubSeq(key, 1, Len(key) - 1)

\* modelName.startsWith(prefix)
StartsWith(name, prefix) ==
    Len(prefix) <= Len(name) /\ SubSeq(name, 1, Len(prefix)) = prefix

NoRates == [found |-> FALSE, input |-> 0, output |-> 0]
Rates(input, output) == [found |-> TRUE, input |-> input, output |-> output]

\* models[modelName], NoRates when there is no such key
RECURSIVE ExactEntry(_, _)
ExactEntry(table, name) ==
    IF table = <<>> THEN NoRates
    ELSE IF Head(table).key = name THEN Head(table).rates
    ELSE ExactEntry(Tail(table), name)

\* for (const [key, value] of wildcards)
\*   if (modelName.startsWith(key.slice(0, -1))) return value;
RECURSIVE FirstWildcard(_, _)
FirstWildcard(table, name) ==
    IF table = <<>> THEN NoRates
    ELSE LET key == Head(table).key
         IN  IF EndsWithStar(key) /\ StartsWith(name, DropLast(key))
             THEN Head(table).rates
             ELSE FirstWildcard(Tail(table), name)

\* the lookup trying the wildcards before the exact key
resolvePricingWildcardFirst(modelName, pricing) ==
    IF ~pricing.exists THEN NoRates
    ELSE IF FirstWildcard(pricing.models, modelName).found
    THEN FirstWildcard(pricing.models, modelName)
    ELSE ExactEntry(pricing.models, modelName)

\* resolvePricing(modelName, pricing); NoRates stands for null
resolvePricing(modelName, pricing) ==
    IF ~pricing.exists THEN NoRates
    ELSE IF ExactEntry(pricing.models, modelName).found
    THEN ExactEntry(pricing.models, modelName)
    ELSE FirstWildcard(pricing.models, modelName)

\* Tokens are counted in millions and rates are in dollars a million
\* tokens; a cost is in cents.  The cache rates are the input rate times
\* readMultiplier 0.1 and times writeMultiplier5m 1.25.
Tokens(input, output, cacheRead, cacheWrite) ==
    [input |-> input, output |-> output, cacheRead |-> cacheRead,
     cacheWrite |-> cacheWrite]

CostOf(delta, rates) ==
    delta.input * rates.input * 100 + delta.output * rates.output * 100
        + delta.cacheRead * rates.input * 10 + delta.cacheWrite * rates.input * 125

\* the loop of computeCost over Object.entries(deltaByModel)
RECURSIVE computeCostFrom(_, _, _)
computeCostFrom(entries, pricing, acc) ==
    IF entries = <<>> THEN acc
    ELSE LET rates == resolvePricing(Head(entries).key, pricing)
         IN  computeCostFrom(Tail(entries), pricing,
                 IF ~rates.found
                 THEN [acc EXCEPT !.missing = Append(@, Head(entries).key)]
                 ELSE [acc EXCEPT !.total = @ + CostOf(Head(entries).value, rates)])

\* computeCost(deltaByModel, pricing): { total, missing }
computeCost(deltaByModel, pricing) ==
    computeCostFrom(deltaByModel, pricing, [total |-> 0, missing |-> <<>>])

----------------------------------------------------------------------------
(* Pricing: the refresh from the pricing page *)

PricingRefreshDays == 30
PricingRefreshRetryHours == 12
MsPerHour == 60 * MsPerMinute
MsPerDay == 24 * MsPerHour

\* The times of pricing.json (updatedAt, lastRefreshAttempt) are kept in
\* whole minutes, a time of 0 being an absent or unparsable one: thirty
\* days of milliseconds are more than an integer of the model holds, and
\* every time of the model is a whole minute.
MinutesPerHour == 60
MinutesPerDay == 24 * MinutesPerHour
Minutes(t) == t \div MsPerMinute

\* the rows parsePricingFromText looks for, in its order, and their keys
PricingRows ==
    << [name |-> "Claude Opus 4.5", key |-> <<"claude-opus-4", "-5", "*">>],
       [name |-> "Claude Opus 4.1", key |-> <<"claude-opus-4", "-1", "*">>],
       [name |-> "Claude Opus 4", key |-> <<"claude-opus-4", "*">>],
       [name |-> "Claude Haiku 3", key |-> <<"claude-haiku-3", "*">>] >>

\* parsePricingFromText(text): a page is the set of rows found in its text,
\* a row a name followed by five "$n / MTok"; input is the first number,
\* output the fifth
RECURSIVE ParseRows(_, _)
ParseRows(rows, page) ==
    IF rows = <<>> THEN <<>>
    ELSE LET found == {r \in page : r.name = Head(rows).name}
         IN  (IF found = {} THEN <<>>
              ELSE LET r == CHOOSE x \in found : TRUE
                   IN  << [key |-> Head(rows).key,
                           rates |-> Rates(r.numbers[1], r.numbers[5])] >>)
             \o ParseRows(Tail(rows), page)

parsePricingFromText(page) == ParseRows(PricingRows, page)

\* stale: Number.isNaN(updatedAt) || now - updatedAt > maxAgeMs
PricingStale(pricing, t) ==
    \/ ~pricing.exists
    \/ pricing.updatedAt = 0
    \/ Minutes(t) - pricing.updatedAt > PricingRefreshDays * MinutesPerDay

\* the retry test with >= for >
PricingCanRetryAtLimit(pricing, t) ==
    \/ ~pricing.exists
    \/ pricing.lastRefreshAttempt = 0
    \/ Minutes(t) - pricing.lastRefreshAttempt >= PricingRefreshRetryHours * MinutesPerHour

\* canRetry: Number.isNaN(lastAttempt) || now - lastAttempt > retryMs
PricingCanRetry(pricing, t) ==
    \/ ~pricing.exists
    \/ pricing.lastRefreshAttempt = 0
    \/ Minutes(t) - pricing.lastRefreshAttempt > PricingRefreshRetryHours * MinutesPerHour

\* a refresh that leaves the file as it was when the fetch fails
refreshPricingKeepingFile(pricing, t, http, page, wrote) ==
    IF ~PricingStale(pricing, t) \/ ~PricingCanRetry(pricing, t)
    THEN [attempted |-> FALSE, pricing |-> pricing, file |-> pricing]
    ELSE LET models == IF http = "ok" THEN parsePricingFromText(page) ELSE <<>>
             nextPricing ==
                IF models # <<>>
                THEN [exists |-> TRUE, updatedAt |-> Minutes(t), lastRefreshAttempt |-> Minutes(t),
                      models |-> models]
                ELSE pricing
         IN  [attempted |-> TRUE, pricing |-> nextPricing,
              file |-> IF wrote THEN nextPricing ELSE pricing]

\* refreshPricingIfStale(pricingPath): what it returns and what the pricing
\* file holds after it.  http: how the fetch ends ("ok", "notOk", "throws");
\* page: the text fetched; wrote: whether the write of the file lands.
refreshPricingIfStale(pricing, t, http, page, wrote) ==
    IF ~PricingStale(pricing, t) \/ ~PricingCanRetry(pricing, t)
    THEN [attempted |-> FALSE, pricing |-> pricing, file |-> pricing]
    ELSE LET attempt == [pricing EXCEPT !.exists = TRUE, !.lastRefreshAttempt = Minutes(t)]
             models == IF http = "ok" THEN parsePricingFromText(page) ELSE <<>>
             nextPricing ==
                IF models # <<>>
                THEN [exists |-> TRUE, updatedAt |-> Minutes(t), lastRefreshAttempt |-> Minutes(t),
                      models |-> models]
                ELSE attempt
         IN  [attempted |-> TRUE, pricing |-> nextPricing,
              file |-> IF wrote THEN nextPricing ELSE pricing]

----------------------------------------------------------------------------
(* Usage history: keys, buckets and updateUsageHistory *)

DailyKeep == 120
MonthlyKeep == 24

\* A day key 'YYYY-MM-DD' is <<year, month, day>> and a month key 'YYYY-MM'
\* is <<year, month>>: the fields are padded to a fixed width, so the order
\* of the strings is the order of the tuples, field by field.
RECURSIVE KeyLess(_, _)
KeyLess(a, b) ==
    IF a = <<>> \/ b = <<>> THEN a = <<>> /\ b # <<>>
    ELSE IF Head(a) # Head(b) THEN Head(a) < Head(b)
    ELSE KeyLess(Tail(a), Tail(b))

\* dayKey.slice(0, 7)
MonthOfKey(dayKey) == SubSeq(dayKey, 1, 2)

\* The calendar of the local dates, from the first day of FirstYear on:
\* the days before a month of a common year, and the leap day of 2024.
FirstYear == 2023
DaysBeforeMonth == <<0, 31, 59, 90, 120, 151, 181, 212, 243, 273, 304, 334>>

LeapDaysBefore(year, month) ==
    IF year > 2024 \/ (year = 2024 /\ month > 2) THEN 1 ELSE 0

\* the number of a day, the first day of FirstYear being day 1
DayNumber(date) ==
    (date[1] - FirstYear) * 365 + LeapDaysBefore(date[1], date[2])
    + DaysBeforeMonth[date[2]] + date[3]

\* the first day of the month after that of a date
NextMonthFirst(date) ==
    IF date[2] < 12 THEN <<date[1], date[2] + 1, 1>> ELSE <<date[1] + 1, 1, 1>>

\* the date of a day number: the day of the month it falls in
DateOf(n) ==
    LET month == CHOOSE ym \in (FirstYear..(FirstYear + 3)) \X (1..12) :
                     /\ DayNumber(<<ym[1], ym[2], 1>>) <= n
                     /\ n < DayNumber(NextMonthFirst(<<ym[1], ym[2], 1>>))
    IN  <<month[1], month[2], n - DayNumber(<<month[1], month[2], 1>>) + 1>>

PrevDate(date) == DateOf(DayNumber(date) - 1)
AddDays(date, n) == DateOf(DayNumber(date) + n)

\* An object keyed by strings is the sequence of its [key, value] in the
\* order the keys were first set, the order of Object.keys and
\* Object.entries.
KeysOf(obj) == [i \in DOMAIN obj |-> obj[i].key]
KeySet(obj) == {obj[i].key : i \in DOMAIN obj}
Has(obj, key) == key \in KeySet(obj)
Get(obj, key) == obj[CHOOSE i \in DOMAIN obj : obj[i].key = key].value

\* obj[key] = value
Put(obj, key, value) ==
    IF Has(obj, key)
    THEN [i \in DOMAIN obj |-> IF obj[i].key = key THEN [key |-> key, value |-> value]
                                ELSE obj[i]]
    ELSE Append(obj, [key |-> key, value |-> value])

\* a trim keeping the first keepCount keys: keys.slice(0, keepCount)
trimHistoryKeysOldest(obj, keepCount) ==
    LET keys == SortSeq(KeysOf(obj), LAMBDA a, b : KeyLess(a, b))
    IN  IF Len(keys) <= keepCount THEN obj
        ELSE [i \in 1..keepCount |-> [key |-> keys[i], value |-> Get(obj, keys[i])]]

\* trimHistoryKeys(obj, keepCount): Object.keys(obj).sort(), then the
\* entries of keys.slice(-keepCount) in that order
trimHistoryKeys(obj, keepCount) ==
    LET keys == SortSeq(KeysOf(obj), LAMBDA a, b : KeyLess(a, b))
    IN  IF Len(keys) <= keepCount THEN obj
        ELSE [i \in 1..keepCount |->
                 LET key == keys[Len(keys) - keepCount + i]
                 IN  [key |-> key, value |-> Get(obj, key)]]

----------------------------------------------------------------------------
(* Initial state *)

\* fetchCcusageSummary giving null
NoCcusage == [missing |-> TRUE, dailyRows |-> <<>>]

\* no file: stat throws
NoTranscript == [io |-> "noStat", bytes |-> <<>>, mtimeMs |-> 0]

\* no usage-history.json: readJsonSafe gives null
NoHistory == [exists |-> FALSE, daily |-> <<>>, monthly |-> <<>>, lastUpdated |-> 0]

\* no pricing.json
NoPricing ==
    [exists |-> FALSE, updatedAt |-> 0, lastRefreshAttempt |-> 0, models |-> <<>>]

\* no child process: launchClaudeHello has spawned nothing
NoChild ==
    [started |-> FALSE, startedAt |-> 0, event |-> "none", timerDue |-> 0,
     timerFired |-> FALSE, stdin |-> <<>>, writtenAt |-> 0, ended |-> FALSE,
     caught |-> FALSE, uncaught |-> FALSE]

\* no call of the core's functions made on their own yet
NoCall ==
    [op |-> "none", allowStale |-> FALSE, allowCache |-> FALSE, maxAgeMinutes |-> 0,
     path |-> "none", data |-> NoLimits, wrote |-> FALSE, limit |-> NullLimit,
     t |-> 0, before |-> NoCache, info |-> NullInfo, value |-> "none",
     file |-> NoTranscript, window |-> 0, range |-> [start |-> 0, length |-> 0],
     result |-> NullValue, dirs |-> <<>>, maxDepth |-> 0, latest |-> NoLatest,
     ccusage |-> NoCcusage, http |-> "none", page |-> {}, ok |-> FALSE,
     reason |-> "none",
     attempted |-> FALSE, pricing |-> NoPricing, seq |-> 0,
     models |-> <<>>, cost |-> [total |-> 0, missing |-> <<>>],
     state |-> NullState, actions |-> {},
     delaySeconds |-> 0, dryRun |-> FALSE, child |-> NoChild]

StartMs == (TickLimitsMaxAgeMinutes + MaxClockMinutes) * MsPerMinute
EndMs == StartMs + MaxClockMinutes * MsPerMinute

\* a state file left by earlier runs: 19 launches, ten minutes apart, the
\* last one five minutes before the model starts
PriorLaunch(i) == StartMs - (5 + (HistoryKeep - i) * 10) * MsPerMinute

PriorState ==
    [exists |-> TRUE, has |-> {"lastLaunch", "history"},
     lastLaunch |-> PriorLaunch(HistoryKeep),
     history |-> [i \in 1..HistoryKeep |-> PriorLaunch(i)],
     pauseUntil |-> 0, lastReauthOpen |-> 0]

\* response bodies: 50% and 99.9%; 100% and no seven_day object
OkLimits == [five_hour |-> Util(Percent(50)), seven_day |-> Util(Percent(100) - 1)]
FullLimits == [five_hour |-> Util(Percent(100)), seven_day |-> NullLimit]

LiveLimits == {OkLimits, FullLimits}

\* a limits cache written 350 minutes before the model starts
PriorCache ==
    [valid |-> TRUE, timestamp |-> StartMs - 350 * MsPerMinute, limits |-> OkLimits]

InitialCaches ==
    {[cache |-> NoCache, files |-> <<>>],
     [cache |-> PriorCache, files |-> <<>>]}

Init ==
    /\ now = StartMs
    /\ stateFile \in {NullState, PriorState}
    /\ \E c \in InitialCaches :
          limitsCache = c.cache /\ dashboardCaches = c.files
    /\ lastActivityTs \in {0, StartMs}
    /\ phase = [p \in Procs |-> "off"]
    /\ config = [p \in Procs |-> DefaultConfig]
    /\ tickInProgress = [p \in Procs |-> FALSE]
    /\ frames = [p \in Procs |-> <<>>]
    /\ nextFire = [p \in Procs |-> 0]
    /\ skips = [p \in Procs |-> 0]
    /\ starts = 0
    /\ pauseCmd = 0
    /\ historyFile = NoHistory
    /\ pricingFile = NoPricing
    /\ lastCall = NoCall

----------------------------------------------------------------------------
(* Actions *)

\* the awaits that can take minutes: the network request of fetchUsageLimits
\* has no timeout; file reads and writes and the spawn event take milliseconds
SlowAwaits == {"fetch"}

\* no other keeper process is running
OthersOff(p) == \A q \in Procs \ {p} : phase[q] = "off"

\* the interval timer of p is due and its callback has not run yet
TimerDue(p) ==
    /\ phase[p] = "timer"
    /\ now >= nextFire[p]
    /\ tickReturnsAtGuard(tickInProgress[p]) => skips[p] < MaxSkips

\* the clock moves; a timer that is due fires before it moves on
Advance ==
    /\ now + ClockStepMinutes * MsPerMinute <= EndMs
    /\ \A p \in Procs : \A i \in 1..Len(frames[p]) : frames[p][i].pc \in SlowAwaits
    /\ \A p \in Procs : ~TimerDue(p)
    /\ now' = now + ClockStepMinutes * MsPerMinute
    /\ UNCHANGED <<stateFile, limitsCache, dashboardCaches, lastActivityTs, phase,
                   config, tickInProgress, frames, nextFire, skips,
                   starts, pauseCmd, lastCall,
                   historyFile, pricingFile>>

\* main(): parseArgs, then await tick(config); the first tick enters at once,
\* tickInProgress being false in a new process
Start(p, argv) ==
    /\ phase[p] = "off"
    /\ starts < MaxStarts
    /\ starts' = starts + 1
    /\ phase' = [phase EXCEPT ![p] = "main"]
    /\ config' = [config EXCEPT ![p] = parseArgs(argv)]
    /\ tickInProgress' = [tickInProgress EXCEPT ![p] = TRUE]
    /\ frames' = [frames EXCEPT ![p] = <<NewFrame>>]
    /\ skips' = [skips EXCEPT ![p] = 0]
    /\ pauseCmd' = IF parseArgs(argv).resume \/ parseArgs(argv).pauseMinutes > 0
                   THEN 0 ELSE pauseCmd
    /\ UNCHANGED <<now, stateFile, limitsCache, dashboardCaches, lastActivityTs,
                   nextFire, lastCall,
                   historyFile, pricingFile>>

\* the process is ended from outside (logout, kill); a tick in progress is
\* abandoned
Kill(p) ==
    /\ phase[p] = "timer"
    /\ ~InSyncStretch(p)
    /\ phase' = [phase EXCEPT ![p] = "off"]
    /\ tickInProgress' = [tickInProgress EXCEPT ![p] = FALSE]
    /\ frames' = [frames EXCEPT ![p] = <<>>]
    /\ UNCHANGED <<now, stateFile, limitsCache, dashboardCaches, lastActivityTs,
                   config, nextFire, skips, starts, pauseCmd, lastCall,
                   historyFile, pricingFile>>

\* setInterval(() => tick(config), intervalMs): the timer is due; tick either
\* returns at the guard or starts a body
TimerFire(p) ==
    /\ phase[p] = "timer"
    /\ ~InSyncStretch(p)
    /\ now >= nextFire[p]
    /\ nextFire' = [nextFire EXCEPT ![p] = now + config[p].intervalMinutes * MsPerMinute]
    /\ IF tickReturnsAtGuard(tickInProgress[p])
       THEN /\ skips[p] < MaxSkips
            /\ skips' = [skips EXCEPT ![p] = @ + 1]
            /\ UNCHANGED <<tickInProgress, frames,
                   historyFile, pricingFile>>
       ELSE /\ tickInProgress' = [tickInProgress EXCEPT ![p] = TRUE]
            /\ frames' = [frames EXCEPT ![p] = Append(@, NewFrame)]
            /\ UNCHANGED skips
    /\ UNCHANGED <<now, stateFile, limitsCache, dashboardCaches, lastActivityTs,
                   phase, config, starts, pauseCmd, lastCall,
                   historyFile, pricingFile>>

\* a tick that looks at --pause-minutes before --resume
ReadStatePauseFirst(p, i) ==
    LET f == frames[p][i]
        cfg == config[p]
        state == readState
        g == [f EXCEPT !.state = state, !.fx = @ \cup {"readState"}]
    IN  /\ f.pc = "readState"
        /\ IF cfg.pauseMinutes > 0
           THEN Continue(p, i, [g EXCEPT !.pc = "writePause",
                                         !.pending = pauseState(state, now, cfg)])
           ELSE IF cfg.resume
           THEN IF state.exists
                THEN Continue(p, i, [g EXCEPT !.pc = "writeResume",
                                              !.pending = resumeState(state)])
                ELSE Finish(p, i, g, "resumed")
           ELSE IF isPaused(state, now)
           THEN Finish(p, i, g, "skipPaused")
           ELSE Continue(p, i, [g EXCEPT !.pc = "activity"])
        /\ UNCHANGED <<now, stateFile, limitsCache, dashboardCaches, lastActivityTs,
                       config, skips, starts, pauseCmd, lastCall,
                   historyFile, pricingFile>>

\* await readState() resolves; resume, pause and the paused check follow
ReadState(p, i) ==
    LET f == frames[p][i]
        cfg == config[p]
        state == readState
        g == [f EXCEPT !.state = state, !.fx = @ \cup {"readState"}]
    IN  /\ f.pc = "readState"
        /\ IF cfg.resume
           THEN IF state.exists
                THEN Continue(p, i, [g EXCEPT !.pc = "writeResume",
                                              !.pending = resumeState(state)])
                ELSE Finish(p, i, g, "resumed")
           ELSE IF cfg.pauseMinutes > 0
           THEN Continue(p, i, [g EXCEPT !.pc = "writePause",
                                         !.pending = pauseState(state, now, cfg)])
           ELSE IF isPaused(state, now)
           THEN Finish(p, i, g, "skipPaused")
           ELSE Continue(p, i, [g EXCEPT !.pc = "activity"])
        /\ UNCHANGED <<now, stateFile, limitsCache, dashboardCaches, lastActivityTs,
                       config, skips, starts, pauseCmd, lastCall,
                   historyFile, pricingFile>>

\* await getLatestActivityTimestamp(config) resolves; now = Date.now()
ReadActivity(p, i) ==
    LET f == frames[p][i]
        cfg == config[p]
        g == [f EXCEPT !.lastActivity = lastActivityTs, !.now = now,
                       !.fx = @ \cup {"activity"}]
    IN  /\ f.pc = "activity"
        /\ IF isActive(g.lastActivity, g.now, cfg)
           THEN Finish(p, i, g, "skipActive")
           ELSE Continue(p, i, [g EXCEPT !.pc = "fetch"])
        /\ UNCHANGED <<now, stateFile, limitsCache, dashboardCaches, lastActivityTs,
                       config, skips, starts, pauseCmd, lastCall,
                   historyFile, pricingFile>>

\* await fetchUsageLimits(...) resolves with the result r on the path given;
\* the token_expired branch, or the limits gate and the cooldown, follow, and
\* launchClaudeApp or launchClaudeHello is called.  The cache write of the
\* lookup is taken to land (CallFetchUsageLimits has it fail as well).
FetchResolves(p, i, path, r) ==
    LET f == frames[p][i]
        cfg == config[p]
        g == [f EXCEPT !.limitsInfo = r.info, !.fx = @ \cup {"fetch"},
                       !.fetchPath = path]
    IN  /\ f.pc = "fetch"
        /\ limitsCache' = r.cache
        /\ IF r.info.isNull
           THEN Finish(p, i, g, "skipNoLimits")
           ELSE IF r.info.errorCode = "token_expired"
           THEN IF reauthCooldownActive(g.state, g.now, cfg)
                THEN Finish(p, i, g, "skipReauthCooldown")
                ELSE Continue(p, i, [g EXCEPT !.pc = "openApp",
                                              !.fx = @ \cup {"openApp"}])
           ELSE IF limitsGateSkips(r.info)
           THEN Finish(p, i, g, "skipLimits")
           ELSE IF cooldownActive(g.state, g.now, cfg)
           THEN Finish(p, i, g, "skipCooldown")
           ELSE Continue(p, i, [g EXCEPT !.pc = "launch",
                                         !.fx = @ \cup {"launch"}])
        /\ UNCHANGED <<now, stateFile, dashboardCaches, lastActivityTs, config,
                       skips, starts, pauseCmd, lastCall,
                   historyFile, pricingFile>>

\* the tick with the fetchUsageLimits of the core, which takes a response
\* saying the token has expired as it takes any response that is not ok
Fetch(p, i) ==
    \E token \in BOOLEAN, http \in HttpOutcomes \ {"expired"}, data \in LiveLimits :
        FetchResolves(p, i, FetchPath(token, http),
                      fetchUsageLimits(TRUE, TRUE, TickLimitsMaxAgeMinutes, token, http,
                                       data, now, limitsCache, dashboardCaches))

\* the tick with a fetchUsageLimits that reports the expired token
FetchReporting(p, i) ==
    \E token \in BOOLEAN, http \in HttpOutcomes, data \in LiveLimits :
        FetchResolves(p, i, FetchPath(token, http),
                      fetchUsageLimitsReporting(TRUE, TRUE, TickLimitsMaxAgeMinutes, token,
                                                http, data, now, limitsCache,
                                                dashboardCaches))

\* await launchClaudeApp(...) resolves: open was spawned, or failed
OpenResult(p, i) ==
    LET f == frames[p][i]
        cfg == config[p]
    IN  /\ f.pc = "openApp"
        /\ \E spawnOk \in (IF cfg.dryRun THEN {TRUE} ELSE BOOLEAN) :
              LET opened == launchClaudeApp(cfg.dryRun, spawnOk)
                  g == [f EXCEPT !.fx = @ \cup (IF cfg.dryRun THEN {}
                                                ELSE IF spawnOk THEN {"opened"}
                                                ELSE {"openError"})]
              IN  IF opened
                  THEN Continue(p, i, [g EXCEPT !.pc = "writeReauth",
                                                !.pending = reauthState(f.state, f.now)])
                  ELSE Finish(p, i, g, "openFailed")
        /\ UNCHANGED <<now, stateFile, limitsCache, dashboardCaches, lastActivityTs,
                       config, skips, starts, pauseCmd, lastCall,
                   historyFile, pricingFile>>

\* await launchClaudeHello(...) resolves: the child emitted spawn or error
LaunchResult(p, i) ==
    LET f == frames[p][i]
        cfg == config[p]
    IN  /\ f.pc = "launch"
        /\ \E spawnOk \in (IF cfg.dryRun THEN {TRUE} ELSE BOOLEAN) :
              LET launched == launchClaudeHello(cfg.dryRun, spawnOk)
                  g == [f EXCEPT !.fx = @ \cup (IF cfg.dryRun THEN {}
                                                ELSE IF spawnOk THEN {"spawned"}
                                                ELSE {"spawnError"})]
              IN  IF ~tickRecordsLaunch(launched)
                  THEN Finish(p, i, g, "spawnFailed")
                  ELSE Continue(p, i, [g EXCEPT !.pc = "writeLaunch",
                                                !.pending = launchState(f.state, f.now)])
        /\ UNCHANGED <<now, stateFile, limitsCache, dashboardCaches, lastActivityTs,
                       config, skips, starts, pauseCmd, lastCall,
                   historyFile, pricingFile>>

\* await launchClaudeHello(...) rejects: spawn threw in the executor of the
\* promise (Node throws from spawn on errors other than ENOENT, EACCES,
\* EAGAIN, EMFILE and ENFILE, which it reports by the error event), and tick
\* has no catch
Throw(p, i) ==
    LET f == frames[p][i]
    IN  /\ f.pc = "launch"
        /\ ~config[p].dryRun
        /\ Finish(p, i, [f EXCEPT !.fx = @ \cup {"threw"}], "threw")
        /\ UNCHANGED <<now, stateFile, limitsCache, dashboardCaches, lastActivityTs,
                       config, skips, starts, pauseCmd, lastCall,
                   historyFile, pricingFile>>

WriteOutcome(pc) ==
    CASE pc = "writeResume" -> "resumed"
      [] pc = "writePause" -> "paused"
      [] pc = "writeLaunch" -> "launched"
      [] pc = "writeReauth" -> "reauthOpened"

\* await writeState(nextState) resolves; a failed write is swallowed
WriteState(p, i) ==
    LET f == frames[p][i]
    IN  /\ f.pc \in {"writeResume", "writePause", "writeLaunch", "writeReauth"}
        /\ \E ok \in BOOLEAN :
              /\ stateFile' = IF ok THEN writeState(f.pending) ELSE stateFile
              /\ pauseCmd' = IF ok /\ f.pc = "writePause" /\ phase[p] = "main"
                             THEN f.pending.pauseUntil ELSE pauseCmd
              /\ Finish(p, i, [f EXCEPT !.fx = @ \cup (IF ok THEN {"writeState", "written"}
                                                       ELSE {"writeState"})],
                        WriteOutcome(f.pc))
        /\ UNCHANGED <<now, limitsCache, dashboardCaches, lastActivityTs, config,
                       skips, starts, lastCall,
                   historyFile, pricingFile>>

\* a tick whose flag is reset at its end but not in a finally block: a tick
\* that threw leaves it set
ReturnWithoutFinally(p, i) ==
    /\ frames[p][i].pc = "done"
    /\ frames' = [frames EXCEPT ![p] = RemoveAt(@, i)]
    /\ tickInProgress' = [tickInProgress EXCEPT
                              ![p] = frames[p][i].outcome = "threw"]
    /\ IF phase[p] = "main"
       THEN IF frames[p][i].outcome = "threw"
            THEN /\ phase' = [phase EXCEPT ![p] = "failed"]
                 /\ UNCHANGED nextFire
            ELSE IF config[p].once
            THEN /\ phase' = [phase EXCEPT ![p] = "off"]
                 /\ UNCHANGED nextFire
            ELSE /\ phase' = [phase EXCEPT ![p] = "timer"]
                 /\ nextFire' = [nextFire EXCEPT
                        ![p] = now + config[p].intervalMinutes * MsPerMinute]
       ELSE UNCHANGED <<phase, nextFire,
                   historyFile, pricingFile>>
    /\ skips' = [skips EXCEPT ![p] = 0]
    /\ UNCHANGED <<now, stateFile, limitsCache, dashboardCaches, lastActivityTs,
                   config, starts, pauseCmd, lastCall,
                   historyFile, pricingFile>>

\* finally { tickInProgress = false }; the tick that main() awaited is
\* followed by setInterval, or by the end of the process: when it threw,
\* main() rejects and its catch calls process.exit(1) (phase "failed").  A
\* tick the timer called that throws is caught by the timer's callback.
Return(p, i) ==
    /\ frames[p][i].pc = "done"
    /\ frames' = [frames EXCEPT ![p] = RemoveAt(@, i)]
    /\ tickInProgress' = [tickInProgress EXCEPT ![p] = FALSE]
    /\ IF phase[p] = "main"
       THEN IF frames[p][i].outcome = "threw"
            THEN /\ phase' = [phase EXCEPT ![p] = "failed"]
                 /\ UNCHANGED nextFire
            ELSE IF config[p].once
            THEN /\ phase' = [phase EXCEPT ![p] = "off"]
                 /\ UNCHANGED nextFire
            ELSE /\ phase' = [phase EXCEPT ![p] = "timer"]
                 /\ nextFire' = [nextFire EXCEPT
                        ![p] = now + config[p].intervalMinutes * MsPerMinute]
       ELSE UNCHANGED <<phase, nextFire,
                   historyFile, pricingFile>>
    /\ skips' = [skips EXCEPT ![p] = 0]
    /\ UNCHANGED <<now, stateFile, limitsCache, dashboardCaches, lastActivityTs,
                   config, starts, pauseCmd, lastCall,
                   historyFile, pricingFile>>

Next ==
    \/ Advance
    \/ \E p \in Procs : \E argv \in CommandLines(p) : OthersOff(p) /\ Start(p, argv)
    \/ \E p \in Procs : Kill(p)
    \/ \E p \in Procs : TimerFire(p)
    \/ \E p \in Procs : \E i \in 1..Len(frames[p]) : ReadState(p, i)
    \/ \E p \in Procs : \E i \in 1..Len(frames[p]) : ReadActivity(p, i)
    \/ \E p \in Procs : \E i \in 1..Len(frames[p]) : Fetch(p, i)
    \/ \E p \in Procs : \E i \in 1..Len(frames[p]) : LaunchResult(p, i)
    \/ \E p \in Procs : \E i \in 1..Len(frames[p]) : WriteState(p, i)
    \/ \E p \in Procs : \E i \in 1..Len(frames[p]) : Return(p, i)

Spec == Init /\ [][Next]_vars

\* The keeper with a core whose lookup reports the expired token: the state
\* file of earlier runs holds a lastReauthOpen 50 minutes old.
PriorReauthState ==
    [PriorState EXCEPT !.has = @ \cup {"lastReauthOpen"},
                       !.lastReauthOpen = StartMs - 50 * MsPerMinute]

InitReauth ==
    /\ now = StartMs
    /\ stateFile \in {NullState, PriorReauthState}
    /\ limitsCache = PriorCache
    /\ dashboardCaches = <<>>
    /\ lastActivityTs = 0
    /\ phase = [p \in Procs |-> "off"]
    /\ config = [p \in Procs |-> DefaultConfig]
    /\ tickInProgress = [p \in Procs |-> FALSE]
    /\ frames = [p \in Procs |-> <<>>]
    /\ nextFire = [p \in Procs |-> 0]
    /\ skips = [p \in Procs |-> 0]
    /\ starts = 0
    /\ pauseCmd = 0
    /\ historyFile = NoHistory
    /\ pricingFile = NoPricing
    /\ lastCall = NoCall

\* the daemon, "Send hello now" and a dry run
ReauthCommandLines(p) ==
    IF p = "daemon" THEN {DaemonArgs} ELSE {RunOnceArgs, DryRunArgs}

NextReauth ==
    \/ Advance
    \/ \E p \in Procs : \E argv \in ReauthCommandLines(p) : OthersOff(p) /\ Start(p, argv)
    \/ \E p \in Procs : Kill(p)
    \/ \E p \in Procs : TimerFire(p)
    \/ \E p \in Procs : \E i \in 1..Len(frames[p]) : ReadState(p, i)
    \/ \E p \in Procs : \E i \in 1..Len(frames[p]) : ReadActivity(p, i)
    \/ \E p \in Procs : \E i \in 1..Len(frames[p]) : FetchReporting(p, i)
    \/ \E p \in Procs : \E i \in 1..Len(frames[p]) : OpenResult(p, i)
    \/ \E p \in Procs : \E i \in 1..Len(frames[p]) : LaunchResult(p, i)
    \/ \E p \in Procs : \E i \in 1..Len(frames[p]) : WriteState(p, i)
    \/ \E p \in Procs : \E i \in 1..Len(frames[p]) : Return(p, i)

SpecReauth == InitReauth /\ [][NextReauth]_vars

----------------------------------------------------------------------------
(* The core's functions called on their own: limitOk, readLimitsCache and  *)
(* fetchUsageLimits, on cache files of several ages, as the keeper and the *)
(* menu call them.                                                         *)

LookupStepMinutes == 10
LookupMaxMinutes == 20

DefaultLimitsCacheMinutes == 180

\* a cache file written so many minutes before the model starts
CacheEntry(minutesOld, limits) ==
    [valid |-> TRUE, timestamp |-> StartMs - minutesOld * MsPerMinute, limits |-> limits]

LegacyNewLimits == [five_hour |-> Util(Percent(10)), seven_day |-> Util(Percent(20))]
LegacyOldLimits == [five_hour |-> Util(Percent(30)), seven_day |-> Util(Percent(40))]

\* the limits cache file: none; one as old as the default maximum age; a
\* recent one
LookupCacheFiles ==
    {NoCache, CacheEntry(DefaultLimitsCacheMinutes, OkLimits), CacheEntry(30, FullLimits)}

\* the legacy cache-*.json files in readdir order: none; an old and a new
\* one, in both orders; an unreadable one before an old one
LookupDashboardFiles ==
    {<<>>,
     <<CacheEntry(200, LegacyOldLimits), CacheEntry(20, LegacyNewLimits)>>,
     <<CacheEntry(20, LegacyNewLimits), CacheEntry(200, LegacyOldLimits)>>,
     <<NoCache, CacheEntry(200, LegacyOldLimits)>>}

LookupMaxAges == {0, DefaultLimitsCacheMinutes}

\* the values limitOk is called with
LimitValues ==
    {NullLimit, Util(0), Util(Percent(100) - 1), Util(Percent(100)),
     Util(Percent(100) + 1), NotANumber, Infinite, NonNumber}

InitLookup ==
    /\ now = StartMs
    /\ stateFile = NullState
    /\ limitsCache \in LookupCacheFiles
    /\ dashboardCaches \in LookupDashboardFiles
    /\ lastActivityTs = 0
    /\ phase = [p \in Procs |-> "off"]
    /\ config = [p \in Procs |-> DefaultConfig]
    /\ tickInProgress = [p \in Procs |-> FALSE]
    /\ frames = [p \in Procs |-> <<>>]
    /\ nextFire = [p \in Procs |-> 0]
    /\ skips = [p \in Procs |-> 0]
    /\ starts = 0
    /\ pauseCmd = 0
    /\ historyFile = NoHistory
    /\ pricingFile = NoPricing
    /\ lastCall = NoCall

\* time passes between two calls
LookupAdvance ==
    /\ now + LookupStepMinutes * MsPerMinute <= StartMs + LookupMaxMinutes * MsPerMinute
    /\ now' = now + LookupStepMinutes * MsPerMinute
    /\ UNCHANGED <<stateFile, limitsCache, dashboardCaches, lastActivityTs, phase,
                   config, tickInProgress, frames, nextFire, skips, starts, pauseCmd,
                   lastCall,
                   historyFile, pricingFile>>

\* limitOk(limit)
CallLimitOk ==
    /\ \E limit \in LimitValues :
          lastCall' = ([NoCall EXCEPT !.op = "limitOk", !.limit = limit, !.t = now,
                                          !.value = limitOk(limit)])
    /\ UNCHANGED <<now, stateFile, limitsCache, dashboardCaches, lastActivityTs, phase,
                   config, tickInProgress, frames, nextFire, skips, starts, pauseCmd,
                   historyFile, pricingFile>>

\* readLimitsCache(maxAgeMinutes, allowStale)
CallReadLimitsCache ==
    /\ \E allowStale \in BOOLEAN, maxAgeMinutes \in LookupMaxAges :
          lastCall' = ([NoCall EXCEPT
              !.op = "readLimitsCache", !.allowStale = allowStale,
              !.maxAgeMinutes = maxAgeMinutes, !.t = now, !.before = limitsCache,
              !.info = readLimitsCache(maxAgeMinutes, allowStale, now, limitsCache,
                                       dashboardCaches)])
    /\ UNCHANGED <<now, stateFile, limitsCache, dashboardCaches, lastActivityTs, phase,
                   config, tickInProgress, frames, nextFire, skips, starts, pauseCmd,
                   historyFile, pricingFile>>

\* fetchUsageLimits({ allowStale, allowCache, maxAgeMinutes }); the write of
\* the cache file may fail, which writeLimitsCache swallows
CallFetchUsageLimits ==
    /\ \E allowStale \in BOOLEAN, allowCache \in BOOLEAN, maxAgeMinutes \in LookupMaxAges,
          token \in BOOLEAN :
       \E http \in (IF token THEN HttpOutcomes ELSE {"notOk"}) :
       \E data \in (IF token /\ http = "ok" THEN LiveLimits ELSE {NoLimits}),
          wrote \in (IF token /\ http = "ok" THEN BOOLEAN ELSE {FALSE}) :
          LET r == fetchUsageLimits(allowStale, allowCache, maxAgeMinutes, token, http,
                                    data, now, limitsCache, dashboardCaches)
          IN  /\ limitsCache' = IF wrote THEN r.cache ELSE limitsCache
              /\ lastCall' = ([NoCall EXCEPT
                     !.op = "fetchUsageLimits", !.allowStale = allowStale,
                     !.allowCache = allowCache, !.maxAgeMinutes = maxAgeMinutes,
                     !.path = FetchPath(token, http), !.data = data, !.wrote = wrote,
                     !.t = now, !.before = limitsCache, !.info = r.info])
    /\ UNCHANGED <<now, stateFile, dashboardCaches, lastActivityTs, phase,
                   config, tickInProgress, frames, nextFire, skips, starts, pauseCmd,
                   historyFile, pricingFile>>

NextLookup ==
    \/ LookupAdvance
    \/ CallLimitOk
    \/ CallReadLimitsCache
    \/ CallFetchUsageLimits

SpecLookup == InitLookup /\ [][NextLookup]_vars

\* the keeper not started: the functions below are called on their own
KeeperOff ==
    /\ now = StartMs
    /\ stateFile = NullState
    /\ limitsCache = NoCache
    /\ dashboardCaches = <<>>
    /\ lastActivityTs = 0
    /\ phase = [p \in Procs |-> "off"]
    /\ config = [p \in Procs |-> DefaultConfig]
    /\ tickInProgress = [p \in Procs |-> FALSE]
    /\ frames = [p \in Procs |-> <<>>]
    /\ nextFire = [p \in Procs |-> 0]
    /\ skips = [p \in Procs |-> 0]
    /\ starts = 0
    /\ pauseCmd = 0

keeperVars ==
    <<stateFile, limitsCache, dashboardCaches, lastActivityTs, phase, config,
      tickInProgress, frames, nextFire, skips, starts, pauseCmd>>

----------------------------------------------------------------------------
(* Usage history: updateUsageHistory *)

\* the local date at StartMs, a midnight
UsageStartDate == <<2025, 5, 30>>

\* toLocalDateKey(now) and toLocalMonthKey(now)
toLocalDateKey(t) == AddDays(UsageStartDate, (t - StartMs) \div MsPerDay)
toLocalMonthKey(t) == MonthOfKey(toLocalDateKey(t))

AddTokens(a, b) ==
    Tokens(a.input + b.input, a.output + b.output, a.cacheRead + b.cacheRead,
           a.cacheWrite + b.cacheWrite)

\* the models of a daily row: from modelBreakdowns when there are any, under
\* the one name of modelsUsed, or under 'unknown'
RECURSIVE ModelsOfBreakdowns(_, _)
ModelsOfBreakdowns(breakdowns, models) ==
    IF breakdowns = <<>> THEN models
    ELSE ModelsOfBreakdowns(Tail(breakdowns),
                            Put(models, Head(breakdowns).modelName, Head(breakdowns).tokens))

RowModels(row) ==
    IF row.modelBreakdowns # <<>> THEN ModelsOfBreakdowns(row.modelBreakdowns, <<>>)
    ELSE IF Len(row.modelsUsed) = 1 THEN Put(<<>>, row.modelsUsed[1], row.tokens)
    ELSE Put(<<>>, <<"unknown">>, row.tokens)

\* the body of the loop overwriting every day
ApplyDailyRowOverwriting(row, daily, todayKey, t) ==
    Put(daily, row.date,
        [models |-> RowModels(row), source |-> "ccusage", updatedAt |-> t])

\* the body of the loop over the rows:
\*   if (isPastDay && existing) continue; history.daily[row.date] = {...}
ApplyDailyRow(row, daily, todayKey, t) ==
    LET isPastDay == KeyLess(row.date, todayKey)
        existing == Has(daily, row.date)
    IN  IF isPastDay /\ existing THEN daily
        ELSE Put(daily, row.date,
                 [models |-> RowModels(row), source |-> "ccusage", updatedAt |-> t])

\* for (const row of ccusageSummary.dailyRows), the rows in their order:
\* the first half of them, then the second.  The test of first has the
\* first half evaluated before the second is entered, and both its branches
\* are the same map: the evaluation is otherwise nested as deep as the rows
\* are many.
RECURSIVE ApplyDailyRows(_, _, _, _)
ApplyDailyRows(rows, daily, todayKey, t) ==
    IF rows = <<>> THEN daily
    ELSE IF Len(rows) = 1 THEN ApplyDailyRow(rows[1], daily, todayKey, t)
    ELSE LET half == Len(rows) \div 2
             first == ApplyDailyRows(SubSeq(rows, 1, half), daily, todayKey, t)
         IN  IF first = <<>>
             THEN ApplyDailyRows(SubSeq(rows, half + 1, Len(rows)), <<>>, todayKey, t)
             ELSE ApplyDailyRows(SubSeq(rows, half + 1, Len(rows)), first, todayKey, t)

\* mergeModelMap(target, source)
RECURSIVE mergeModelMap(_, _)
mergeModelMap(target, source) ==
    IF source = <<>> THEN target
    ELSE LET model == Head(source).key
             before == IF Has(target, model) THEN Get(target, model)
                       ELSE Tokens(0, 0, 0, 0)
         IN  mergeModelMap(Put(target, model, AddTokens(before, Head(source).value)),
                           Tail(source))

\* the body of the loop of computeMonthlyFromDaily
AddToMonthly(monthly, dayKey, entry) ==
    LET monthKey == MonthOfKey(dayKey)
        bucket == IF Has(monthly, monthKey) THEN Get(monthly, monthKey)
                  ELSE [models |-> <<>>, source |-> entry.source, updatedAt |-> 0]
    IN  Put(monthly, monthKey,
            [bucket EXCEPT !.models = mergeModelMap(@, entry.models),
                           !.updatedAt = IF entry.updatedAt # 0
                                         THEN entry.updatedAt ELSE @])

\* for (const [dayKey, entry] of Object.entries(dailyMap)), the entries in
\* their order: the first half of them, then the second, the first half
\* evaluated before the second is entered as in ApplyDailyRows
RECURSIVE MonthlyFrom(_, _)
MonthlyFrom(entries, monthly) ==
    IF entries = <<>> THEN monthly
    ELSE IF Len(entries) = 1
    THEN AddToMonthly(monthly, entries[1].key, entries[1].value)
    ELSE LET half == Len(entries) \div 2
             first == MonthlyFrom(SubSeq(entries, 1, half), monthly)
         IN  IF first = <<>>
             THEN MonthlyFrom(SubSeq(entries, half + 1, Len(entries)), <<>>)
             ELSE MonthlyFrom(SubSeq(entries, half + 1, Len(entries)), first)

computeMonthlyFromDaily(dailyMap) == MonthlyFrom(dailyMap, <<>>)

\* updateUsageHistory(): what it returns and what the history file and the
\* pricing file hold after it.  ccusage: what fetchCcusageSummary gives;
\* http, page, wrotePricing: how the pricing refresh goes; wroteHistory:
\* whether writeFile(historyPath) lands, which throws when it does not.
updateUsageHistory(history, pricing, t, ccusage, http, page, wrotePricing, wroteHistory) ==
    LET refreshed == refreshPricingIfStale(pricing, t, http, page, wrotePricing)
        todayKey == toLocalDateKey(t)
        daily == ApplyDailyRows(ccusage.dailyRows,
                                IF history.exists THEN history.daily ELSE <<>>,
                                todayKey, t)
        monthly == computeMonthlyFromDaily(daily)
        next == [exists |-> TRUE, daily |-> trimHistoryKeys(daily, DailyKeep),
                 monthly |-> trimHistoryKeys(monthly, MonthlyKeep), lastUpdated |-> t]
    IN  IF ccusage.missing
        THEN [ok |-> FALSE, reason |-> "ccusage_missing", history |-> history,
              pricingFile |-> refreshed.file, refreshed |-> refreshed]
        ELSE IF ~wroteHistory
        THEN [ok |-> FALSE, reason |-> "throws", history |-> history,
              pricingFile |-> refreshed.file, refreshed |-> refreshed]
        ELSE [ok |-> TRUE, reason |-> "none", history |-> next,
              pricingFile |-> refreshed.file, refreshed |-> refreshed]

----------------------------------------------------------------------------
(* updateUsageHistory called, refresh after refresh *)

UsageMaxDays == 2
MaxRefreshes == 2

OpusModel == <<"claude-opus-4", "-5", "-20250101">>

\* a row of ccusage daily --json --breakdown for a date, its numbers being
\* those of the run v of ccusage
DailyRow(date, v) ==
    [date |-> date, tokens |-> Tokens(v, v, 0, 0),
     modelBreakdowns |-> << [modelName |-> OpusModel, tokens |-> Tokens(v, v, 0, 0)] >>,
     modelsUsed |-> <<OpusModel>>]

\* a row without a breakdown and with two models used
PlainRow(date, v) ==
    [date |-> date, tokens |-> Tokens(v, v, 0, 0), modelBreakdowns |-> <<>>,
     modelsUsed |-> <<>>]

\* the n days up to a date, oldest first
LastDays(date, n) == [i \in 1..n |-> AddDays(date, i - n)]

\* the first day of the month of a date
MonthFirst(date) == <<date[1], date[2], 1>>

\* the first day of the month n months before that of a date
MonthFirstBefore(date, n) ==
    LET months == date[1] * 12 + (date[2] - 1) - n
    IN  <<months \div 12, (months % 12) + 1, 1>>

\* the first days of the n months up to that of a date, oldest first
MonthFirsts(date, n) == [i \in 1..n |-> MonthFirstBefore(date, n - i)]

RowsOf(dates, v) == [i \in DOMAIN dates |-> DailyRow(dates[i], v)]

\* what ccusage reports on a day: nothing; the last three days; more days
\* than the history keeps; more months than the history keeps; yesterday
\* alone, without a breakdown
CcusageResults(today) ==
    {NoCcusage}
    \cup {[missing |-> FALSE, dailyRows |-> RowsOf(dates, v)] :
             dates \in {LastDays(today, 3), LastDays(today, DailyKeep + 2),
                        MonthFirsts(today, MonthlyKeep + 2) \o <<today>>},
             v \in 1..2}
    \cup {[missing |-> FALSE, dailyRows |-> <<PlainRow(PrevDate(today), 2)>>]}

FullPage ==
    {[name |-> "Claude Opus 4.5", numbers |-> <<5, 6, 10, 1, 25>>],
     [name |-> "Claude Opus 4.1", numbers |-> <<15, 19, 30, 2, 75>>],
     [name |-> "Claude Opus 4", numbers |-> <<15, 19, 30, 2, 75>>],
     [name |-> "Claude Haiku 3", numbers |-> <<1, 1, 1, 1, 2>>]}

\* the table shipped in config/pricing.json, updated when the model starts
FreshPricing ==
    [exists |-> TRUE, updatedAt |-> Minutes(StartMs), lastRefreshAttempt |-> 0,
     models |-> parsePricingFromText(FullPage)]

InitHistory ==
    /\ KeeperOff
    /\ historyFile = NoHistory
    /\ pricingFile = FreshPricing
    /\ lastCall = NoCall

UsageAdvance ==
    /\ now + MsPerDay <= StartMs + UsageMaxDays * MsPerDay
    /\ now' = now + MsPerDay
    /\ UNCHANGED <<keeperVars, historyFile, pricingFile, lastCall>>

\* await updateUsageHistory(), as the renderer calls it
UpdateUsageHistoryWith(ccusage, http, page, wrotePricing, wroteHistory, seq) ==
    LET r == updateUsageHistory(historyFile, pricingFile, now, ccusage, http, page,
                                wrotePricing, wroteHistory)
    IN  /\ historyFile' = r.history
        /\ pricingFile' = r.pricingFile
        /\ lastCall' = [NoCall EXCEPT
               !.op = "updateUsageHistory", !.t = now, !.ccusage = ccusage,
               !.http = http, !.page = page, !.wrote = wrotePricing, !.ok = r.ok, !.reason = r.reason,
               !.attempted = r.refreshed.attempted, !.pricing = r.refreshed.pricing,
               !.seq = seq]
        /\ UNCHANGED <<now, keeperVars>>

\* a refresh while the pricing table is recent
RefreshHistory ==
    /\ lastCall.seq < MaxRefreshes
    /\ \E ccusage \in CcusageResults(toLocalDateKey(now)) :
           UpdateUsageHistoryWith(ccusage, "ok", FullPage, TRUE, TRUE, lastCall.seq + 1)

\* a refresh whose write of usage-history.json throws
RefreshHistoryUnwritten ==
    /\ lastCall.seq < MaxRefreshes
    /\ \E v \in 1..2 :
           UpdateUsageHistoryWith(
               [missing |-> FALSE, dailyRows |-> RowsOf(LastDays(toLocalDateKey(now), 3), v)],
               "ok", FullPage, TRUE, FALSE, lastCall.seq + 1)

NextHistory ==
    \/ UsageAdvance
    \/ RefreshHistory
    \/ RefreshHistoryUnwritten

SpecHistory == InitHistory /\ [][NextHistory]_vars

----------------------------------------------------------------------------
(* The pricing table over two days: refreshes and lookups *)

PricingStepHours == 6
PricingMaxHours == 48

\* a page with the rows of two models only, and one without a row
PartialPage ==
    {[name |-> "Claude Opus 4", numbers |-> <<15, 19, 30, 2, 75>>],
     [name |-> "Claude Haiku 3", numbers |-> <<1, 1, 1, 1, 2>>]}
EmptyPage == {}

\* a table whose widest wildcard comes first and whose last key is the full
\* name of a model
ReorderedModels ==
    << [key |-> <<"claude-opus-4", "*">>, rates |-> Rates(15, 75)],
       [key |-> <<"claude-opus-4", "-5", "*">>, rates |-> Rates(5, 25)],
       [key |-> OpusModel, rates |-> Rates(7, 9)] >>

\* when the model starts pricing.json is absent, or was updated 29 days and
\* 18 hours ago and no refresh was attempted since
UpdatedBefore == Minutes(StartMs) - (PricingRefreshDays * MinutesPerDay - PricingStepHours * MinutesPerHour)

PricingFiles ==
    {NoPricing}
    \cup {[exists |-> TRUE, updatedAt |-> UpdatedBefore, lastRefreshAttempt |-> 0,
           models |-> models] : models \in {parsePricingFromText(FullPage), ReorderedModels}}

\* the tokens of a day or month by model, in millions
ModelMaps ==
    {<< [key |-> OpusModel, value |-> Tokens(1, 1, 0, 0)] >>,
     << [key |-> <<"claude-haiku-9">>, value |-> Tokens(1, 1, 1, 1)] >>,
     << [key |-> <<"claude-opus-4", "-5", "-20251101">>, value |-> Tokens(2, 1, 4, 0)],
        [key |-> <<"claude-haiku-9">>, value |-> Tokens(1, 0, 0, 0)],
        [key |-> <<"claude-opus-4", "-1", "-20250805">>, value |-> Tokens(0, 1, 0, 4)] >>,
     << [key |-> <<"claude-haiku-3", "-5">>, value |-> Tokens(1, 2, 0, 0)],
        [key |-> OpusModel, value |-> Tokens(1, 0, 0, 0)] >>}

InitPricing ==
    /\ KeeperOff
    /\ historyFile = NoHistory
    /\ pricingFile \in PricingFiles
    /\ lastCall = NoCall

PricingAdvance ==
    /\ now + PricingStepHours * MsPerHour <= StartMs + PricingMaxHours * MsPerHour
    /\ now' = now + PricingStepHours * MsPerHour
    /\ UNCHANGED <<keeperVars, historyFile, pricingFile, lastCall>>

\* updateUsageHistory while ccusage is not installed: the pricing refresh
\* runs before the return
RefreshPricing ==
    \E http \in {"ok", "notOk", "throws"}, wrotePricing \in BOOLEAN :
        \E page \in IF http = "ok" THEN {FullPage, PartialPage, EmptyPage} ELSE {EmptyPage} :
            UpdateUsageHistoryWith(NoCcusage, http, page, wrotePricing, TRUE, 0)

\* computeCost(models, pricing) with the table of the pricing file
CallComputeCost ==
    /\ \E models \in ModelMaps :
           lastCall' = [NoCall EXCEPT
               !.op = "computeCost", !.t = now, !.models = models,
               !.pricing = pricingFile, !.cost = computeCost(models, pricingFile)]
    /\ UNCHANGED <<now, keeperVars, historyFile, pricingFile>>

NextPricing ==
    \/ PricingAdvance
    \/ RefreshPricing
    \/ CallComputeCost

SpecPricing == InitPricing /\ [][NextPricing]_vars

----------------------------------------------------------------------------
(* The Activity Reader and the Transcript Locator called on their own *)

MaxLines == 3
MaxDepthArg == 3

\* the lines a transcript is made of: events with a timestamp at the top, in
\* message and, for a SessionStart hook event, in data; an event whose
\* timestamp Date cannot parse; an event with three timestamps below the
\* top; an event without one; a line that is not JSON; a blank line
EventLine(entry) == <<Byte("{"), Members(entry), Byte("}")>>

TranscriptLines ==
    {EventLine([NoEntry EXCEPT !.timestamp = 2]),
     EventLine([NoEntry EXCEPT !.message = 3]),
     EventLine([NoEntry EXCEPT !.data = 1, !.sessionStart = TRUE]),
     EventLine([NoEntry EXCEPT !.timestamp = InvalidDate, !.snapshot = 3]),
     EventLine([NoEntry EXCEPT !.snapshot = 1, !.message = 3, !.data = 2]),
     EventLine(NoEntry),
     <<Byte("!")>>,
     <<Byte("sp")>>}

RECURSIVE JoinLines(_)
JoinLines(lines) ==
    IF lines = <<>> THEN <<>>
    ELSE IF Len(lines) = 1 THEN Head(lines)
    ELSE Head(lines) \o <<Byte("nl")>> \o JoinLines(Tail(lines))

\* the file was last written after its last event
TranscriptMtimeMs == 5

\* transcripts of up to MaxLines lines, with and without a newline at the
\* end, which stat, open and read succeed on or not
Transcripts ==
    {[io |-> io,
      bytes |-> JoinLines(lines) \o (IF newline THEN <<Byte("nl")>> ELSE <<>>),
      mtimeMs |-> TranscriptMtimeMs] :
        lines \in UNION {[1..n -> TranscriptLines] : n \in 0..MaxLines},
        newline \in BOOLEAN,
        io \in {"ok"}}
    \cup
    {[io |-> io, bytes |-> EventLine([NoEntry EXCEPT !.timestamp = 2]),
      mtimeMs |-> TranscriptMtimeMs] : io \in {"noStat", "noOpen", "noRead"}}

\* every window from none to more than the longest file
Windows == 0..(4 * MaxLines + 1)

InitTranscript ==
    /\ KeeperOff
    /\ historyFile = NoHistory
    /\ pricingFile = NoPricing
    /\ lastCall = NoCall

\* readLastTranscriptTimestamp(filePath, tailBytes)
CallReadLastTranscriptTimestamp ==
    /\ lastCall = NoCall
    /\ \E file \in Transcripts, tailBytes \in Windows :
          lastCall' = [NoCall EXCEPT
              !.op = "readLastTranscriptTimestamp", !.file = file,
              !.window = tailBytes,
              !.range = IF file.io \in {"noStat", "noOpen"} THEN NoCall.range
                        ELSE TailRange(Len(file.bytes), tailBytes),
              !.result = readLastTranscriptTimestamp(file, tailBytes)]
    /\ UNCHANGED <<now, keeperVars, historyFile, pricingFile>>

\* readSessionStartTimestamp(filePath, headBytes)
CallReadSessionStartTimestamp ==
    /\ lastCall = NoCall
    /\ \E file \in Transcripts, headBytes \in Windows :
          lastCall' = [NoCall EXCEPT
              !.op = "readSessionStartTimestamp", !.file = file,
              !.window = headBytes,
              !.range = IF file.io \in {"noStat", "noOpen"} THEN NoCall.range
                        ELSE HeadRange(Len(file.bytes), headBytes),
              !.result = readSessionStartTimestamp(file, headBytes)]
    /\ UNCHANGED <<now, keeperVars, historyFile, pricingFile>>

MaxMtime == 3

\* ~/.claude/projects: a.jsonl, s/b.jsonl, s/t/c.jsonl, a newer file under
\* node_modules, a newer file that is no .jsonl and an entry that is no file
ProjectsDir(m, readable, statable) ==
    [path |-> << <<"home">>, <<".claude">>, <<"projects">> >>,
     node |-> DirNode(<<"projects">>, TRUE,
        << FileNode(<<"a", ".jsonl">>, m[1], TRUE),
           DirNode(<<"s">>, readable,
              << FileNode(<<"b", ".jsonl">>, m[2], statable),
                 DirNode(<<"t">>, TRUE, << FileNode(<<"c", ".jsonl">>, m[3], TRUE) >>) >>),
           DirNode(<<"node_modules">>, TRUE,
              << FileNode(<<"d", ".jsonl">>, MaxMtime + 1, TRUE) >>),
           FileNode(<<"e", ".json">>, MaxMtime + 1, TRUE),
           OtherNode(<<"f", ".jsonl">>) >>)]

\* a directory of CLAUDE_TRANSCRIPT_DIRS: a newer notes.jsonl,
\* MyTranscript.jsonl, logs/History.jsonl, a newer transcript.JSONL
ExtraDir(m) ==
    [path |-> << <<"extra">> >>,
     node |-> DirNode(<<"extra">>, TRUE,
        << FileNode(<<"notes", ".jsonl">>, MaxMtime + 1, TRUE),
           FileNode(<<"My", "Transcript", ".jsonl">>, m[4], TRUE),
           DirNode(<<"logs">>, TRUE,
              << FileNode(<<"History", ".jsonl">>, m[1], TRUE) >>),
           FileNode(<<"transcript", ".JSONL">>, MaxMtime + 1, TRUE) >>)]

\* ~/.config/claude/projects, which is not there: readdir throws
MissingDir ==
    [path |-> << <<"home">>, <<".config">>, <<"claude">>, <<"projects">> >>,
     node |-> DirNode(<<"projects">>, FALSE, <<>>)]

SearchDirs(m, readable, statable) ==
    {<<MissingDir>>,
     <<MissingDir, ProjectsDir(m, readable, statable)>>,
     <<ProjectsDir(m, readable, statable), ExtraDir(m)>>,
     <<ExtraDir(m), ProjectsDir(m, readable, statable)>>,
     <<MissingDir, ExtraDir(m)>>}

\* findLatestTranscriptFile(dirs, maxDepth)
CallFindLatestTranscriptFile ==
    /\ lastCall = NoCall
    /\ \E m \in [1..4 -> 1..MaxMtime], readable \in BOOLEAN, statable \in BOOLEAN :
       \E dirs \in SearchDirs(m, readable, statable), maxDepth \in 0..MaxDepthArg :
          lastCall' = [NoCall EXCEPT
              !.op = "findLatestTranscriptFile", !.dirs = dirs, !.maxDepth = maxDepth,
              !.latest = findLatestTranscriptFile(dirs, maxDepth)]
    /\ UNCHANGED <<now, keeperVars, historyFile, pricingFile>>

\* the caller has taken the result
CallReturns ==
    /\ lastCall # NoCall
    /\ lastCall' = NoCall
    /\ UNCHANGED <<now, keeperVars, historyFile, pricingFile>>

NextTranscript ==
    \/ CallReturns
    \/ CallReadLastTranscriptTimestamp
    \/ CallReadSessionStartTimestamp
    \/ CallFindLatestTranscriptFile

SpecTranscript == InitTranscript /\ [][NextTranscript]_vars

----------------------------------------------------------------------------
(* The status renderer, claude-session.1m.js: a run of main() from the     *)
(* menu-bar host, and the keeper processes its menu actions start.         *)

RendererMaxAgeMinutes == 360

RenderMaxMinutes == 10
MaxClicks == 2

\* limits && limitOk(limits.five_hour) && limitOk(limits.seven_day) with the
\* staleness test of the tick added
rendererLimitsOkFresh(info) ==
    /\ ~info.isNull
    /\ ToBoolean(limitOk(info.limits.five_hour))
    /\ ToBoolean(limitOk(info.limits.seven_day))
    /\ ~info.stale

\* const limitsOk = limits && limitOk(limits.five_hour) &&
\* limitOk(limits.seven_day), limits being limitsInfo?.limits ?? null
rendererLimitsOk(info) ==
    /\ ~info.isNull
    /\ ToBoolean(limitOk(info.limits.five_hour))
    /\ ToBoolean(limitOk(info.limits.seven_day))

\* the command lines of the menu lines that are not disabled, the keeper
\* script being found: "Send hello now" if limitsOk, "Send hello anyway" if
\* not, "Pause keepalive 30m" and "Resume keepalive"
menuActions(info) ==
    (IF rendererLimitsOk(info) THEN {RunOnceArgs} ELSE {ForceOnceArgs})
    \cup {PauseArgs, ResumeArgs}

\* what ccusage gives the renderer: the last three days
RenderCcusage ==
    {[missing |-> FALSE, dailyRows |-> RowsOf(LastDays(toLocalDateKey(now), 3), 1)]}

\* a limits cache written 355 minutes before the model starts: it is stale,
\* for the renderer and for the tick, once ten minutes have passed
RenderCache == CacheEntry(RendererMaxAgeMinutes - 5, OkLimits)

InitRender ==
    /\ now = StartMs
    /\ stateFile \in {NullState, PriorState}
    /\ limitsCache \in {NoCache, RenderCache}
    /\ dashboardCaches = <<>>
    /\ lastActivityTs = 0
    /\ phase = [p \in Procs |-> "off"]
    /\ config = [p \in Procs |-> DefaultConfig]
    /\ tickInProgress = [p \in Procs |-> FALSE]
    /\ frames = [p \in Procs |-> <<>>]
    /\ nextFire = [p \in Procs |-> 0]
    /\ skips = [p \in Procs |-> 0]
    /\ starts = 0
    /\ pauseCmd = 0
    /\ historyFile = NoHistory
    /\ pricingFile = FreshPricing
    /\ lastCall = NoCall

\* main() up to the end of await fetchUsageLimits({ allowStale: true,
\* allowCache: true, maxAgeMinutes: 360 }): the activity and session reads
\* change nothing, the lookup writes the limits cache.  The runs modelled
\* are those that begin while no tick of a menu action is in execution.
RenderLimits ==
    /\ lastCall.op # "renderLimits"
    /\ frames["menu"] = <<>>
    /\ \E token \in BOOLEAN, http \in {"ok", "notOk"}, data \in LiveLimits :
          LET r == fetchUsageLimits(TRUE, TRUE, RendererMaxAgeMinutes, token, http,
                                    data, now, limitsCache, dashboardCaches)
          IN  /\ limitsCache' = r.cache
              /\ lastCall' = [NoCall EXCEPT !.op = "renderLimits", !.info = r.info]
    /\ UNCHANGED <<now, stateFile, dashboardCaches, lastActivityTs, phase, config,
                   tickInProgress, frames, nextFire, skips, starts, pauseCmd,
                   historyFile, pricingFile>>

\* a renderer that writes back the state it shows
RenderMenuWritingState ==
    /\ lastCall.op = "renderLimits"
    /\ \E ccusage \in RenderCcusage :
          LET r == updateUsageHistory(historyFile, pricingFile, now, ccusage, "ok",
                                      FullPage, TRUE, TRUE)
          IN  /\ historyFile' = r.history
              /\ pricingFile' = r.pricingFile
    /\ lastCall' = [lastCall EXCEPT !.op = "rendered", !.state = readState,
                                    !.actions = menuActions(lastCall.info)]
    /\ stateFile' = SpreadState(readState)
    /\ UNCHANGED <<now, limitsCache, dashboardCaches, lastActivityTs, phase,
                   config, tickInProgress, frames, nextFire, skips, starts, pauseCmd>>

\* the rest of main(): await updateUsageHistory() writes the usage history
\* and the pricing table, await readState() reads the state file, and the
\* lines are printed, the menu actions among them
RenderMenu ==
    /\ lastCall.op = "renderLimits"
    /\ \E ccusage \in RenderCcusage :
          LET r == updateUsageHistory(historyFile, pricingFile, now, ccusage, "ok",
                                      FullPage, TRUE, TRUE)
          IN  /\ historyFile' = r.history
              /\ pricingFile' = r.pricingFile
    /\ lastCall' = [lastCall EXCEPT !.op = "rendered", !.state = readState,
                                    !.actions = menuActions(lastCall.info)]
    /\ stateFile' = stateFile
    /\ UNCHANGED <<now, limitsCache, dashboardCaches, lastActivityTs, phase,
                   config, tickInProgress, frames, nextFire, skips, starts, pauseCmd>>

\* the operator picks a menu line that is not disabled: the host runs its
\* command, a keeper process
MenuClick(argv) ==
    /\ lastCall.op = "rendered"
    /\ starts < MaxClicks
    /\ argv \in lastCall.actions
    /\ Start("menu", argv)

\* the clock moves between the steps of the renderer and of the keeper
RenderAdvance ==
    /\ now + ClockStepMinutes * MsPerMinute <= StartMs + RenderMaxMinutes * MsPerMinute
    /\ Advance

NextRender ==
    \/ RenderAdvance
    \/ RenderLimits
    \/ RenderMenu
    \/ \E argv \in {RunOnceArgs, ForceOnceArgs, PauseArgs, ResumeArgs} : MenuClick(argv)
    \/ \E i \in 1..Len(frames["menu"]) : ReadState("menu", i)
    \/ \E i \in 1..Len(frames["menu"]) : ReadActivity("menu", i)
    \/ \E i \in 1..Len(frames["menu"]) : Fetch("menu", i)
    \/ \E i \in 1..Len(frames["menu"]) : LaunchResult("menu", i)
    \/ \E i \in 1..Len(frames["menu"]) : WriteState("menu", i)
    \/ \E i \in 1..Len(frames["menu"]) : Return("menu", i)

SpecRender == InitRender /\ [][NextRender]_vars

----------------------------------------------------------------------------
(* The loop of the daemon alone, with a launch whose spawn throws *)

InitLoop ==
    /\ now = StartMs
    /\ stateFile \in {NullState, PriorState}
    /\ limitsCache = PriorCache
    /\ dashboardCaches = <<>>
    /\ lastActivityTs \in {0, StartMs}
    /\ phase = [p \in Procs |-> "off"]
    /\ config = [p \in Procs |-> DefaultConfig]
    /\ tickInProgress = [p \in Procs |-> FALSE]
    /\ frames = [p \in Procs |-> <<>>]
    /\ nextFire = [p \in Procs |-> 0]
    /\ skips = [p \in Procs |-> 0]
    /\ starts = 0
    /\ pauseCmd = 0
    /\ historyFile = NoHistory
    /\ pricingFile = NoPricing
    /\ lastCall = NoCall

NextLoop ==
    \/ Advance
    \/ Start("daemon", DaemonArgs)
    \/ Kill("daemon")
    \/ TimerFire("daemon")
    \/ \E i \in 1..Len(frames["daemon"]) : ReadState("daemon", i)
    \/ \E i \in 1..Len(frames["daemon"]) : ReadActivity("daemon", i)
    \/ \E i \in 1..Len(frames["daemon"]) : Fetch("daemon", i)
    \/ \E i \in 1..Len(frames["daemon"]) : LaunchResult("daemon", i)
    \/ \E i \in 1..Len(frames["daemon"]) : Throw("daemon", i)
    \/ \E i \in 1..Len(frames["daemon"]) : WriteState("daemon", i)
    \/ \E i \in 1..Len(frames["daemon"]) : Return("daemon", i)

SpecLoop == InitLoop /\ [][NextLoop]_vars

----------------------------------------------------------------------------
(* The daemon and a pause or resume command of the menu, run by the host   *)
(* as a second process while the daemon is in its loop                     *)

MaxCommands == 1

InitConcurrent ==
    /\ InitLoop
    /\ stateFile = PriorState
    /\ lastActivityTs = 0

\* "Pause keepalive 30m" or "Resume keepalive" is picked while the daemon runs
MenuCommand(argv) ==
    /\ phase["daemon"] = "timer"
    /\ starts <= MaxCommands
    /\ Start("menu", argv)

NextConcurrent ==
    \/ Advance
    \/ Start("daemon", DaemonArgs)
    \/ \E argv \in {PauseArgs, ResumeArgs} : MenuCommand(argv)
    \/ Kill("menu")
    \/ TimerFire("daemon")
    \/ \E p \in Procs : \E i \in 1..Len(frames[p]) : ReadState(p, i)
    \/ \E p \in Procs : \E i \in 1..Len(frames[p]) : ReadActivity(p, i)
    \/ \E p \in Procs : \E i \in 1..Len(frames[p]) : Fetch(p, i)
    \/ \E p \in Procs : \E i \in 1..Len(frames[p]) : LaunchResult(p, i)
    \/ \E p \in Procs : \E i \in 1..Len(frames[p]) : WriteState(p, i)
    \/ \E p \in Procs : \E i \in 1..Len(frames[p]) : Return(p, i)

SpecConcurrent == InitConcurrent /\ [][NextConcurrent]_vars

----------------------------------------------------------------------------
(* The gates of tick in order: the daemon, and the commands of the menu    *)
(* and of the shell, one of them with both --resume and --pause-minutes    *)

ResumePauseArgs == <<Opt("--pause-minutes", MenuPauseMinutes), Flag("--resume")>>

OrderCommandLines(p) ==
    IF p = "daemon" THEN {DaemonArgs} ELSE {PauseArgs, ResumeArgs, ResumePauseArgs}

InitOrder ==
    /\ now = StartMs
    /\ stateFile \in {NullState, PriorReauthState}
    /\ limitsCache = PriorCache
    /\ dashboardCaches = <<>>
    /\ lastActivityTs \in {0, StartMs}
    /\ phase = [p \in Procs |-> "off"]
    /\ config = [p \in Procs |-> DefaultConfig]
    /\ tickInProgress = [p \in Procs |-> FALSE]
    /\ frames = [p \in Procs |-> <<>>]
    /\ nextFire = [p \in Procs |-> 0]
    /\ skips = [p \in Procs |-> 0]
    /\ starts = 0
    /\ pauseCmd = 0
    /\ historyFile = NoHistory
    /\ pricingFile = NoPricing
    /\ lastCall = NoCall

NextOrder ==
    \/ Advance
    \/ \E p \in Procs : \E argv \in OrderCommandLines(p) : OthersOff(p) /\ Start(p, argv)
    \/ \E p \in Procs : Kill(p)
    \/ \E p \in Procs : TimerFire(p)
    \/ \E p \in Procs : \E i \in 1..Len(frames[p]) : ReadState(p, i)
    \/ \E p \in Procs : \E i \in 1..Len(frames[p]) : ReadActivity(p, i)
    \/ \E p \in Procs : \E i \in 1..Len(frames[p]) : FetchReporting(p, i)
    \/ \E p \in Procs : \E i \in 1..Len(frames[p]) : OpenResult(p, i)
    \/ \E p \in Procs : \E i \in 1..Len(frames[p]) : LaunchResult(p, i)
    \/ \E p \in Procs : \E i \in 1..Len(frames[p]) : WriteState(p, i)
    \/ \E p \in Procs : \E i \in 1..Len(frames[p]) : Return(p, i)

SpecOrder == InitOrder /\ [][NextOrder]_vars

----------------------------------------------------------------------------
(* launchClaudeHello called on its own: the child process, the timer that  *)
(* writes the priming line, and the clock in seconds                       *)

MsPerSecond == 1000
DefaultHelloDelaySeconds == 5
LaunchMaxSeconds == 7

HelloLine == "hello\n"

\* --hello-delay-seconds: none, two seconds, the default
HelloDelays == {0, 2, DefaultHelloDelaySeconds}

\* a timer set without the delay
helloTimerDueAtOnce(t, delaySeconds) == t

\* setTimeout(..., delaySeconds * 1000), set at t
helloTimerDue(t, delaySeconds) == t + delaySeconds * MsPerSecond

InitLaunch ==
    /\ KeeperOff
    /\ historyFile = NoHistory
    /\ pricingFile = NoPricing
    /\ lastCall = NoCall

\* time passes; a timer of Node fires at its time or later
LaunchAdvance ==
    /\ now + MsPerSecond <= StartMs + LaunchMaxSeconds * MsPerSecond
    /\ now' = now + MsPerSecond
    /\ UNCHANGED <<keeperVars, historyFile, pricingFile, lastCall>>

\* launchClaudeHello(delaySeconds, dryRun) up to its return: a dry run
\* resolves true and spawns nothing; otherwise spawn is called, the
\* listeners of spawn and error are set, and the timer is set
CallLaunchClaudeHello ==
    /\ lastCall.op = "none"
    /\ \E delaySeconds \in HelloDelays, dryRun \in BOOLEAN :
          lastCall' = [NoCall EXCEPT
              !.op = "launchClaudeHello", !.t = now, !.delaySeconds = delaySeconds,
              !.dryRun = dryRun,
              !.value = IF dryRun THEN "true" ELSE "pending",
              !.child = IF dryRun THEN NoChild
                        ELSE [NoChild EXCEPT
                                 !.started = TRUE, !.startedAt = now,
                                 !.timerDue = helloTimerDue(now, delaySeconds)]]
    /\ UNCHANGED <<now, keeperVars, historyFile, pricingFile>>

\* the child emits spawn, or error: finish(ok) resolves the promise once.
\* Both are emitted in the next tick of the event loop, before any timer.
ChildEvent ==
    /\ lastCall.op = "launchClaudeHello"
    /\ lastCall.child.started
    /\ lastCall.child.event = "none"
    /\ \E event \in {"spawn", "error"} :
          lastCall' = [lastCall EXCEPT
              !.child.event = event,
              !.value = IF event = "spawn" THEN "true" ELSE "false"]
    /\ UNCHANGED <<now, keeperVars, historyFile, pricingFile>>

\* a timer callback without the try: what write or end throws is not caught
HelloTimerWithoutTry ==
    /\ lastCall.op = "launchClaudeHello"
    /\ lastCall.child.started
    /\ lastCall.child.event # "none"
    /\ ~lastCall.child.timerFired
    /\ now >= lastCall.child.timerDue
    /\ \E outcome \in {"ok", "writeThrows", "endThrows"} :
          lastCall' = [lastCall EXCEPT
              !.child.timerFired = TRUE,
              !.child.stdin = IF outcome = "writeThrows" THEN @ ELSE Append(@, HelloLine),
              !.child.writtenAt = IF outcome = "writeThrows" THEN @ ELSE now,
              !.child.ended = outcome = "ok",
              !.child.uncaught = outcome # "ok"]
    /\ UNCHANGED <<now, keeperVars, historyFile, pricingFile>>

\* the callback of the timer: try { child.stdin.write('hello\n');
\* child.stdin.end(); } catch { }.  write or end may throw (the child was
\* not started and has no stdin, the stream is closed): the catch is empty.
HelloTimer ==
    /\ lastCall.op = "launchClaudeHello"
    /\ lastCall.child.started
    /\ lastCall.child.event # "none"
    /\ ~lastCall.child.timerFired
    /\ now >= lastCall.child.timerDue
    /\ \E outcome \in {"ok", "writeThrows", "endThrows"} :
          lastCall' = [lastCall EXCEPT
              !.child.timerFired = TRUE,
              !.child.stdin = IF outcome = "writeThrows" THEN @ ELSE Append(@, HelloLine),
              !.child.writtenAt = IF outcome = "writeThrows" THEN @ ELSE now,
              !.child.ended = outcome = "ok",
              !.child.caught = outcome # "ok"]
    /\ UNCHANGED <<now, keeperVars, historyFile, pricingFile>>

NextLaunch ==
    \/ LaunchAdvance
    \/ CallLaunchClaudeHello
    \/ ChildEvent
    \/ HelloTimer

SpecLaunch == InitLaunch /\ [][NextLaunch]_vars

----------------------------------------------------------------------------
(* updateUsageHistory with the pricing cost source (the first revision in  *)
(* usage-history.js): the cumulative totals of stats-cache.json, the       *)
(* deltas against lastTotals, and the buckets of the day and the month     *)

StatsMaxDays == 2
MaxStatsRuns == 3

\* previous is not a number: the model was not in lastTotals
Undefined == -1

TokenKeys == {"input", "output", "cacheRead", "cacheWrite"}

\* a delta that takes no account of the previous total
clampDeltaFromZero(current, previous) == current

\* clampDelta(current, previous), current being a finite number
clampDelta(current, previous) ==
    IF previous = Undefined THEN current
    ELSE IF current - previous < 0 THEN current
    ELSE current - previous

\* normalizeTotals(stats.modelUsage): the four counters of every model under
\* their short names
normalizeTotals(modelUsage) ==
    [i \in DOMAIN modelUsage |->
        [key |-> modelUsage[i].key,
         value |-> Tokens(modelUsage[i].value.inputTokens,
                          modelUsage[i].value.outputTokens,
                          modelUsage[i].value.cacheReadInputTokens,
                          modelUsage[i].value.cacheCreationInputTokens)]]

\* lastTotals[model] || {}, and the fields of it
PreviousOf(lastTotals, model) ==
    IF Has(lastTotals, model) THEN Get(lastTotals, model)
    ELSE Tokens(Undefined, Undefined, Undefined, Undefined)

\* deltaByModel: for every model of totals the four deltas
DeltaByModel(totals, lastTotals) ==
    [i \in DOMAIN totals |->
        LET current == totals[i].value
            prev == PreviousOf(lastTotals, totals[i].key)
        IN  [key |-> totals[i].key,
             value |-> Tokens(clampDelta(current.input, prev.input),
                              clampDelta(current.output, prev.output),
                              clampDelta(current.cacheRead, prev.cacheRead),
                              clampDelta(current.cacheWrite, prev.cacheWrite))]]

\* TOKEN_KEYS.some((key) => delta[key] > 0) for some model
DeltaFound(deltaByModel) ==
    \E i \in DOMAIN deltaByModel : \E key \in TokenKeys : deltaByModel[i].value[key] > 0

NoTokens == Tokens(0, 0, 0, 0)
EmptyBucket == [models |-> <<>>, costUSD |-> 0, missingPricing |-> <<>>]

\* addTokens(target, delta)
addTokens(target, delta) ==
    Tokens(target.input + delta.input, target.output + delta.output,
           target.cacheRead + delta.cacheRead, target.cacheWrite + delta.cacheWrite)

\* addModelTokens(target, model, delta)
addModelTokens(target, model, delta) ==
    [target EXCEPT !.models =
        Put(@, model, addTokens(IF Has(@, model) THEN Get(@, model) ELSE NoTokens, delta))]

RECURSIVE AddAllModels(_, _)
AddAllModels(bucket, deltaByModel) ==
    IF deltaByModel = <<>> THEN bucket
    ELSE AddAllModels(addModelTokens(bucket, Head(deltaByModel).key,
                                     Head(deltaByModel).value),
                      Tail(deltaByModel))

\* the bucket of a key after the deltas and their cost were added to it
AddDeltas(buckets, key, deltaByModel, cost) ==
    LET bucket == IF Has(buckets, key) THEN Get(buckets, key) ELSE EmptyBucket
        added == AddAllModels(bucket, deltaByModel)
    IN  Put(buckets, key, [added EXCEPT !.costUSD = @ + cost.total,
                                         !.missingPricing = cost.missing])

\* no usage-history.json yet
NoStatsHistory ==
    [exists |-> FALSE, daily |-> <<>>, monthly |-> <<>>, lastUpdated |-> 0,
     lastTotals |-> <<>>]

\* updateUsageHistory() with USAGE_COST_SOURCE=pricing: what it returns and
\* what usage-history.json holds after it.  stats: what stats-cache.json
\* holds; wroteHistory: whether writeFile(historyPath) lands, which throws
\* when it does not.
updateUsageHistoryFromStats(history, pricing, t, stats, wroteHistory) ==
    LET totals == normalizeTotals(stats.modelUsage)
        deltaByModel == DeltaByModel(totals, history.lastTotals)
        cost == computeCost(deltaByModel, pricing)
        dayKey == toLocalDateKey(t)
        monthKey == toLocalMonthKey(t)
        daily == IF DeltaFound(deltaByModel)
                 THEN AddDeltas(history.daily, dayKey, deltaByModel, cost)
                 ELSE history.daily
        monthly == IF DeltaFound(deltaByModel)
                   THEN AddDeltas(history.monthly, monthKey, deltaByModel, cost)
                   ELSE history.monthly
        next == [exists |-> TRUE, daily |-> trimHistoryKeys(daily, DailyKeep),
                 monthly |-> trimHistoryKeys(monthly, MonthlyKeep),
                 lastUpdated |-> t, lastTotals |-> totals]
    IN  IF ~stats.hasModelUsage
        THEN [ok |-> FALSE, reason |-> "stats_missing", history |-> history,
              totals |-> <<>>]
        ELSE IF ~wroteHistory
        THEN [ok |-> FALSE, reason |-> "throws", history |-> history, totals |-> totals]
        ELSE [ok |-> TRUE, reason |-> "none", history |-> next, totals |-> totals]

\* the counters of a model in stats-cache.json
Usage(input, output, cacheRead, cacheWrite) ==
    [inputTokens |-> input, outputTokens |-> output,
     cacheReadInputTokens |-> cacheRead, cacheCreationInputTokens |-> cacheWrite]

\* stats-cache.json: without modelUsage; one model; two models, one of them
\* without a price, the counters grown; the counters of the first model
\* lower than before, as after a reset of the statistics
StatsFiles ==
    {[hasModelUsage |-> FALSE, modelUsage |-> <<>>],
     [hasModelUsage |-> TRUE,
      modelUsage |-> << [key |-> OpusModel, value |-> Usage(2, 1, 0, 0)] >>],
     [hasModelUsage |-> TRUE,
      modelUsage |-> << [key |-> OpusModel, value |-> Usage(3, 1, 1, 0)],
                        [key |-> <<"claude-haiku-9">>, value |-> Usage(1, 0, 0, 1)] >>],
     [hasModelUsage |-> TRUE,
      modelUsage |-> << [key |-> OpusModel, value |-> Usage(1, 0, 0, 0)] >>]}

InitStats ==
    /\ KeeperOff
    /\ historyFile = NoStatsHistory
    /\ pricingFile = FreshPricing
    /\ lastCall = NoCall

StatsAdvance ==
    /\ now + MsPerDay <= StartMs + StatsMaxDays * MsPerDay
    /\ now' = now + MsPerDay
    /\ UNCHANGED <<keeperVars, historyFile, pricingFile, lastCall>>

\* await updateUsageHistory() with the pricing cost source: the pricing
\* table is refreshed if stale, then the history is updated from the stats
CallUpdateFromStats ==
    /\ lastCall.seq < MaxStatsRuns
    /\ \E stats \in StatsFiles, wroteHistory \in BOOLEAN :
          LET refreshed == refreshPricingIfStale(pricingFile, now, "ok", FullPage, TRUE)
              r == updateUsageHistoryFromStats(historyFile, refreshed.pricing, now,
                                               stats, wroteHistory)
          IN  /\ historyFile' = r.history
              /\ pricingFile' = refreshed.file
              /\ lastCall' = [NoCall EXCEPT
                     !.op = "updateUsageHistoryFromStats", !.t = now,
                     !.models = r.totals, !.ok = r.ok, !.reason = r.reason,
                     !.seq = lastCall.seq + 1]
    /\ UNCHANGED <<now, keeperVars>>

NextStats ==
    \/ StatsAdvance
    \/ CallUpdateFromStats

SpecStats == InitStats /\ [][NextStats]_vars

----------------------------------------------------------------------------
(* Claims *)

FrameIds == {<<p, i>> \in Procs \X (1..2) : i <= Len(frames[p])}
FrameOf(id) == frames[id[1]][id[2]]
ConfigOf(id) == config[id[1]]

\* the tick handles no pause or resume command
NoCommand(cfg) == ~cfg.resume /\ cfg.pauseMinutes = 0

\* a window's utilization is a finite number below 100 (percent)
WindowOk(limit) == limit.kind = "num" /\ limit.utilization < 100 * 10

LookupAllowsLaunch(info) ==
    /\ ~info.isNull
    /\ WindowOk(info.limits.five_hour)
    /\ WindowOk(info.limits.seven_day)
    /\ ~info.stale

\* C1: the companion is launched only if the limits lookup returned a
\* result, both windows are ok and the result is not stale; in every other
\* case the tick ends at the gate, launches nothing, writes nothing, and
\* lastLaunch and history in the state file are what the tick read.
C1_LaunchOnlyWithinLimits ==
    \A id \in FrameIds :
        LET f == FrameOf(id)
        IN  /\ "launch" \in f.fx => LookupAllowsLaunch(f.limitsInfo)
            /\ ("fetch" \in f.fx /\ ~LookupAllowsLaunch(f.limitsInfo)) =>
                  /\ f.pc = "done"
                  /\ f.outcome \in {"skipNoLimits", "skipLimits"}
                  /\ f.fx \cap {"launch", "spawned", "writeState", "written"} = {}
                  /\ stateFile.lastLaunch = f.state.lastLaunch
                  /\ stateFile.history = f.state.history
                  /\ stateFile.has = f.state.has

\* a tick that found both windows under 100% in a stale cache entry was
\* skipped at the limits gate
C1_Witness ==
    \E id \in FrameIds :
        LET f == FrameOf(id)
        IN  /\ f.outcome = "skipLimits"
            /\ f.limitsInfo.stale
            /\ WindowOk(f.limitsInfo.limits.five_hour)
            /\ WindowOk(f.limitsInfo.limits.seven_day)

\* C2: the tick is re-entrancy guarded: at most one tick body executes in a
\* process at any time, the flag is set exactly while it does, and a call
\* of tick made meanwhile returns at once: it starts no body, queues
\* nothing, and touches neither the state file nor the limits cache.
C2_ReentrancyGuard ==
    /\ [](\A p \in Procs :
            /\ Len(frames[p]) <= 1
            /\ tickInProgress[p] <=> Len(frames[p]) = 1)
    /\ [][\A p \in Procs :
            skips'[p] > skips[p] =>
                /\ tickInProgress[p]
                /\ frames' = frames
                /\ tickInProgress' = tickInProgress
                /\ stateFile' = stateFile
                /\ limitsCache' = limitsCache]_vars

\* the timer called tick while a body was awaiting the limits lookup, and
\* the call returned at the guard
C2_Witness ==
    \E p \in Procs :
        /\ skips[p] > 0
        /\ tickInProgress[p]
        /\ Len(frames[p]) = 1
        /\ frames[p][1].pc = "fetch"

\* the state the tick read has a lastLaunch
HasLastLaunch(state) == state.exists /\ "lastLaunch" \in state.has /\ state.lastLaunch # 0

\* C3: a tick that passed the pause, activity and limits gates launches the
\* companion if and only if the state has no lastLaunch or
\* now - lastLaunch >= cooldownMinutes; otherwise it ends as a cooldown skip.
C3_CooldownGate ==
    \A id \in FrameIds :
        LET f == FrameOf(id)
            cfg == ConfigOf(id)
            elapsed == ~HasLastLaunch(f.state)
                       \/ f.now - f.state.lastLaunch >= cfg.cooldownMinutes * 60 * 1000
        IN  ("fetch" \in f.fx /\ LookupAllowsLaunch(f.limitsInfo)) =>
                /\ "launch" \in f.fx <=> elapsed
                /\ ~elapsed => f.pc = "done" /\ f.outcome = "skipCooldown"

\* with a cooldown of 10 minutes, a tick exactly 10 minutes after the last
\* launch launched
C3_Witness ==
    \E id \in FrameIds :
        LET f == FrameOf(id)
        IN  /\ "launch" \in f.fx
            /\ ConfigOf(id).cooldownMinutes = 10
            /\ HasLastLaunch(f.state)
            /\ f.now - f.state.lastLaunch = 10 * 60 * 1000

\* the history a launch writes, against the history the tick read: the old
\* entries less the oldest ones, then the launch's timestamp
AppendsDroppingOldest(old, new, t) ==
    LET dropped == Len(old) + 1 - Len(new)
    IN  /\ Len(new) <= 20
        /\ dropped >= 0
        /\ Len(old) < 20 => dropped = 0
        /\ new = SubSeq(old, dropped + 1, Len(old)) \o <<t>>

\* C4: the persisted history never has more than 20 entries; a launch
\* appends its timestamp as the last entry and drops only the oldest
\* entries, and none unless the array already held 20 or more.
C4_HistoryBounded ==
    /\ Len(stateFile.history) <= 20
    /\ \A id \in FrameIds :
           LET f == FrameOf(id)
           IN  "spawned" \in f.fx =>
                   /\ AppendsDroppingOldest(f.state.history, f.pending.history, f.now)
                   /\ "written" \in f.fx => stateFile.history = f.pending.history

\* a launch was written over a history of 20 entries: the oldest is gone
C4_Witness ==
    \E id \in FrameIds :
        LET f == FrameOf(id)
        IN  /\ "written" \in f.fx
            /\ "spawned" \in f.fx
            /\ Len(f.state.history) = 20
            /\ Len(stateFile.history) = 20
            /\ stateFile.history[1] = f.state.history[2]
            /\ stateFile.history[20] = f.now

EffectsOfCommand == {"readState", "writeState", "written"}

\* the state a pause command is to leave: what the tick read, with
\* pauseUntil set and nothing else touched
PausedFrom(state, until) ==
    [exists |-> TRUE,
     has |-> (IF state.exists THEN state.has ELSE {}) \cup {"pauseUntil"},
     lastLaunch |-> state.lastLaunch, history |-> state.history,
     pauseUntil |-> until, lastReauthOpen |-> state.lastReauthOpen]

\* C5: a tick run with pauseMinutes = P > 0 and no resume flag writes
\* pauseUntil = now + P minutes and leaves lastLaunch, history and
\* lastReauthOpen as they were; it reads no activity, fetches no limits and
\* launches nothing.  (A write the file system refuses leaves the file as
\* it was.)
C5_PauseCommand ==
    \A id \in FrameIds :
        LET f == FrameOf(id)
            cfg == ConfigOf(id)
            want == PausedFrom(f.state, now + cfg.pauseMinutes * 60 * 1000)
        IN  (cfg.pauseMinutes > 0 /\ ~cfg.resume) =>
                /\ f.fx \subseteq EffectsOfCommand
                /\ "readState" \in f.fx =>
                      /\ f.pc \in {"writePause", "done"}
                      /\ f.pending = want
                      /\ f.pc = "writePause" => stateFile = f.state
                      /\ f.pc = "done" =>
                            /\ f.outcome = "paused"
                            /\ "writeState" \in f.fx
                            /\ stateFile = IF "written" \in f.fx THEN want ELSE f.state

\* a pause command was written over a state that had a lastLaunch and a
\* history
C5_Witness ==
    \E id \in FrameIds :
        LET f == FrameOf(id)
        IN  /\ f.outcome = "paused"
            /\ "written" \in f.fx
            /\ HasLastLaunch(f.state)
            /\ Len(f.state.history) > 0
            /\ stateFile.pauseUntil = now + 30 * 60 * 1000

\* the state a resume command is to leave: what the tick read, less
\* pauseUntil
ResumedFrom(state) ==
    [exists |-> TRUE, has |-> state.has \ {"pauseUntil"},
     lastLaunch |-> state.lastLaunch, history |-> state.history,
     pauseUntil |-> 0, lastReauthOpen |-> state.lastReauthOpen]

\* C6: a tick run with the resume flag removes pauseUntil from the
\* persisted state and leaves every other field as it was (an absent state
\* stays absent); it reads no activity, fetches no limits and launches
\* nothing.
C6_ResumeCommand ==
    \A id \in FrameIds :
        LET f == FrameOf(id)
            cfg == ConfigOf(id)
        IN  cfg.resume =>
                /\ f.fx \subseteq EffectsOfCommand
                /\ "readState" \in f.fx =>
                      IF f.state.exists
                      THEN /\ f.pc \in {"writeResume", "done"}
                           /\ f.pending = ResumedFrom(f.state)
                           /\ f.pc = "writeResume" => stateFile = f.state
                           /\ f.pc = "done" =>
                                 /\ f.outcome = "resumed"
                                 /\ "writeState" \in f.fx
                                 /\ stateFile = IF "written" \in f.fx
                                                THEN ResumedFrom(f.state) ELSE f.state
                      ELSE /\ f.pc = "done"
                           /\ f.outcome = "resumed"
                           /\ "writeState" \notin f.fx
                           /\ ~stateFile.exists

\* a resume command was written over a paused state that had a lastLaunch
C6_Witness ==
    \E id \in FrameIds :
        LET f == FrameOf(id)
        IN  /\ f.outcome = "resumed"
            /\ "written" \in f.fx
            /\ "pauseUntil" \in f.state.has
            /\ f.state.pauseUntil > now
            /\ HasLastLaunch(f.state)
            /\ "pauseUntil" \notin stateFile.has
            /\ stateFile.lastLaunch = f.state.lastLaunch

\* when the tick made its paused check: Date.now() of that stretch, which
\* is the now the tick keeps once it has read the activity
PausedCheckTime(f) == IF "activity" \in f.fx THEN f.now ELSE now

\* C7: a tick without a pause or resume command that reads a state whose
\* pauseUntil is later than the current time ends there: it reads no
\* activity, fetches nothing, launches nothing and writes no state.  A tick
\* whose pauseUntil is absent or not later than the current time is not
\* skipped as paused and goes on to the activity check.
C7_PausedSkip ==
    \A id \in FrameIds :
        LET f == FrameOf(id)
            paused == /\ f.state.exists
                      /\ "pauseUntil" \in f.state.has
                      /\ f.state.pauseUntil > PausedCheckTime(f)
        IN  (NoCommand(ConfigOf(id)) /\ "readState" \in f.fx) =>
                /\ paused =>
                      /\ f.pc = "done"
                      /\ f.outcome = "skipPaused"
                      /\ f.fx = {"readState"}
                      /\ stateFile = f.state
                /\ ~paused =>
                      /\ f.outcome # "skipPaused"
                      /\ f.pc = "activity" \/ "activity" \in f.fx

\* a tick of the daemon was skipped as paused
C7_Witness ==
    \E id \in FrameIds :
        LET f == FrameOf(id)
        IN  /\ f.outcome = "skipPaused"
            /\ ConfigOf(id) = parseArgs(DaemonArgs)
            /\ f.state.pauseUntil > now

\* C8: after a pause command with pauseMinutes = P handled at time t and no
\* further operator command, pauseUntil never exceeds t + P minutes.
C8_PauseLastsRequested ==
    (pauseCmd # 0 /\ stateFile.exists /\ "pauseUntil" \in stateFile.has) =>
        stateFile.pauseUntil <= pauseCmd

\* C9: if the last activity is known and now - lastActivity <= activeMinutes,
\* the tick ends there: no limits fetch, no launch, no state write.  If the
\* last activity is unknown, or older, the tick goes on to the limits lookup.
C9_ActivityGate ==
    \A id \in FrameIds :
        LET f == FrameOf(id)
            cfg == ConfigOf(id)
            active == /\ f.lastActivity # 0
                      /\ f.now - f.lastActivity <= cfg.activeMinutes * 60 * 1000
        IN  "activity" \in f.fx =>
                /\ active =>
                      /\ f.pc = "done"
                      /\ f.outcome = "skipActive"
                      /\ f.fx = {"readState", "activity"}
                      /\ stateFile = f.state
                /\ ~active =>
                      /\ f.outcome # "skipActive"
                      /\ f.pc = "fetch" \/ "fetch" \in f.fx

\* a tick found the last activity exactly activeMinutes = 10 minutes old and
\* was skipped
C9_Witness ==
    \E id \in FrameIds :
        LET f == FrameOf(id)
        IN  /\ f.outcome = "skipActive"
            /\ ConfigOf(id).activeMinutes = 10
            /\ f.now - f.lastActivity = 10 * 60 * 1000

\* the state after the first launch ever, at time t
FirstLaunchState(t) ==
    [exists |-> TRUE, has |-> {"lastLaunch", "history"}, lastLaunch |-> t,
     history |-> <<t>>, pauseUntil |-> 0, lastReauthOpen |-> 0]

\* the limits cache file holds a valid entry, not older than the tick's 360
\* minutes, with both windows under 100%
CacheFileGood ==
    /\ limitsCache.valid
    /\ now - limitsCache.timestamp <= 360 * 60 * 1000
    /\ WindowOk(limitsCache.limits.five_hour)
    /\ WindowOk(limitsCache.limits.seven_day)

C11_ForceBypassesLimits ==
    \A id \in FrameIds :
        LET f == FrameOf(id)
        IN  (/\ ConfigOf(id) = parseArgs(ForceOnceArgs)
             /\ "fetch" \in f.fx
             /\ ~f.limitsInfo.isNull) =>
                /\ f.outcome # "skipLimits"
                /\ "launch" \in f.fx

\* C12: if spawning the companion fails (the child emits error before spawn),
\* the tick ends without a state write: lastLaunch and history, and the rest
\* of the state file, stay as the tick read them.
C12_SpawnFailureIsNoOp ==
    \A id \in FrameIds :
        LET f == FrameOf(id)
        IN  "spawnError" \in f.fx =>
                /\ f.pc = "done"
                /\ f.outcome = "spawnFailed"
                /\ "writeState" \notin f.fx
                /\ stateFile = f.state

\* the spawn failed in a tick that read a state with a lastLaunch and a
\* history
C12_Witness ==
    \E id \in FrameIds :
        LET f == FrameOf(id)
        IN  /\ "spawnError" \in f.fx
            /\ f.outcome = "spawnFailed"
            /\ HasLastLaunch(f.state)
            /\ Len(stateFile.history) = 19

\* lastLaunch or history of the state file differ between two states
LaunchRecordChanged(old, new) ==
    \/ ("lastLaunch" \in old.has) # ("lastLaunch" \in new.has)
    \/ ("history" \in old.has) # ("history" \in new.has)
    \/ old.lastLaunch # new.lastLaunch
    \/ old.history # new.history

\* C13: in every configuration, dry-run included, lastLaunch and history
\* change only by the write of a tick in which the companion process
\* started.
C13_RecordOnlyWhenStarted ==
    [][LaunchRecordChanged(stateFile, stateFile') =>
          \E id \in FrameIds :
              /\ FrameOf(id).pc = "writeLaunch"
              /\ "spawned" \in FrameOf(id).fx]_vars

\* the state a successful re-auth open is to leave: what the tick read, with
\* lastReauthOpen set and nothing else touched
ReauthRecorded(state, t) ==
    [exists |-> TRUE,
     has |-> (IF state.exists THEN state.has ELSE {}) \cup {"lastReauthOpen"},
     lastLaunch |-> state.lastLaunch, history |-> state.history,
     pauseUntil |-> state.pauseUntil, lastReauthOpen |-> t]

C15_ExpiredTokenReported ==
    (lastCall.op = "fetchUsageLimits" /\ lastCall.path = "expired") =>
        /\ ~lastCall.info.isNull
        /\ lastCall.info.errorCode = "token_expired"

\* the limit is non-null and its utilization is a finite number below 100
FiniteBelowHundred(limit) ==
    limit.kind = "num" /\ limit.utilization < 100 * 10

\* C16, as claimed: limitOk(limit) is true exactly when limit is non-null and
\* its utilization is a finite number strictly below 100, and false
\* otherwise, a null limit included.
C16_LimitOkTrueOrFalse ==
    lastCall.op = "limitOk" =>
        lastCall.value = IF FiniteBelowHundred(lastCall.limit) THEN "true" ELSE "false"

\* C16, amended: limitOk(limit) is true exactly when limit is non-null and
\* its utilization is a finite number strictly below 100; otherwise it is
\* falsy: false for a non-null limit (utilization 100 or more, NaN, infinite
\* or not a number), and null, the limit itself, for a null limit.
C16_LimitOkTruthy ==
    lastCall.op = "limitOk" =>
        lastCall.value = IF FiniteBelowHundred(lastCall.limit) THEN "true"
                         ELSE IF lastCall.limit.kind = "null" THEN "null"
                         ELSE "false"

\* limitOk was called with a null limit and returned it
C16_Witness ==
    /\ lastCall.op = "limitOk"
    /\ lastCall.limit.kind = "null"
    /\ lastCall.value = "null"
    /\ ~ToBoolean(lastCall.value)

\* a call that is a cache lookup: fetchUsageLimits without a credential and
\* with the cache allowed, or readLimitsCache itself
IsCacheLookup(call) ==
    \/ call.op = "readLimitsCache"
    \/ call.op = "fetchUsageLimits" /\ call.path = "noToken" /\ call.allowCache

\* a fetchUsageLimits call whose request succeeded
IsLiveFetch(call) == call.op = "fetchUsageLimits" /\ call.path = "ok"

\* C17: a successful live fetch returns the fetched limits with stale = false
\* and age 0 and writes them to the limits cache (when the write lands), so
\* that a cache lookup made right after it, with any positive maxAgeMinutes,
\* returns the same five_hour and seven_day as non-stale.
C17_LiveFetchRoundTrip ==
    /\ [](IsLiveFetch(lastCall) =>
            /\ ~lastCall.info.isNull
            /\ lastCall.info.limits = lastCall.data
            /\ ~lastCall.info.stale
            /\ lastCall.info.ageMinutes = 0
            /\ lastCall.wrote =>
                  /\ limitsCache.valid
                  /\ limitsCache.timestamp = lastCall.t
                  /\ limitsCache.limits = lastCall.data)
    /\ [][(/\ IsLiveFetch(lastCall)
           /\ lastCall.wrote
           /\ IsCacheLookup(lastCall')
           /\ lastCall'.maxAgeMinutes > 0
           /\ lastCall'.t = lastCall.t) =>
              /\ ~lastCall'.info.isNull
              /\ ~lastCall'.info.stale
              /\ lastCall'.info.limits.five_hour = lastCall.data.five_hour
              /\ lastCall'.info.limits.seven_day = lastCall.data.seven_day]_vars

\* a cache lookup found, non-stale, the limits a live fetch had written to
\* the cache file at that same time
C17_Witness ==
    /\ IsCacheLookup(lastCall)
    /\ lastCall.maxAgeMinutes > 0
    /\ lastCall.t >= StartMs
    /\ limitsCache.valid
    /\ limitsCache.timestamp = lastCall.t
    /\ ~lastCall.info.isNull
    /\ ~lastCall.info.stale
    /\ lastCall.info.limits = limitsCache.limits

\* a fetchUsageLimits call that got no live limits: no credential, a response
\* that is not ok, or a fetch that threw
IsFailedFetch(call) ==
    call.op = "fetchUsageLimits" /\ call.path \in {"noToken", "notOk", "expired", "throws"}

SameOptions(c, d) ==
    /\ c.allowCache = d.allowCache
    /\ c.allowStale = d.allowStale
    /\ c.maxAgeMinutes = d.maxAgeMinutes

\* C18: with the same cache contents, the same options and the same time,
\* fetchUsageLimits returns the same result without a credential, on a
\* response that is not ok and on a thrown fetch; none of them writes the
\* cache file.
C18_FailurePathsAgree ==
    /\ [](IsFailedFetch(lastCall) => limitsCache = lastCall.before)
    /\ [][(/\ IsFailedFetch(lastCall)
           /\ IsFailedFetch(lastCall')
           /\ SameOptions(lastCall, lastCall')
           /\ lastCall'.t = lastCall.t) =>
              /\ lastCall'.info = lastCall.info
              /\ limitsCache' = limitsCache]_vars

\* a fetch that threw fell back to a stale cache entry, which it returned
\* flagged stale, and left the cache file alone
C18_Witness ==
    /\ IsFailedFetch(lastCall)
    /\ lastCall.path = "throws"
    /\ lastCall.allowCache
    /\ ~lastCall.info.isNull
    /\ lastCall.info.stale
    /\ limitsCache = lastCall.before

\* a call that went to the cache files: readLimitsCache itself, or a
\* fetchUsageLimits that got no live limits and was allowed the cache
LooksUpCache(call) ==
    \/ call.op = "readLimitsCache"
    \/ IsFailedFetch(call) /\ call.allowCache

ValidLegacyEntries == {dashboardCaches[k] : k \in {j \in DOMAIN dashboardCaches : dashboardCaches[j].valid}}

NewestOf(entries) == CHOOSE e \in entries : \A d \in entries : d.timestamp <= e.timestamp

\* the entries a call could read: the limits cache file as it was when the
\* call was made, and the legacy files
ValidEntries(call) ==
    ValidLegacyEntries \cup (IF call.before.valid THEN {call.before} ELSE {})

\* the entry a call reads: that of the limits cache file when it is valid,
\* else the newest valid legacy entry
EntryInUse(call) ==
    IF call.before.valid THEN call.before ELSE NewestOf(ValidLegacyEntries)

ExceedsMaxAge(entry, call) ==
    call.t - entry.timestamp > call.maxAgeMinutes * MsPerMinute

IsResultOf(info, entry, call) ==
    /\ ~info.isNull
    /\ info.limits = entry.limits
    /\ info.ageMinutes = RoundDiv(call.t - entry.timestamp, MsPerMinute)

\* C19: the entry a cache lookup reads is stale exactly when its age is
\* greater than maxAgeMinutes; a stale entry is returned, with stale = true,
\* only under allowStale = true, and makes the lookup return null under
\* allowStale = false; an entry that is not stale is returned with
\* stale = false.
C19_StaleIffOlderThanMaxAge ==
    (LooksUpCache(lastCall) /\ ValidEntries(lastCall) # {}) =>
        LET entry == EntryInUse(lastCall)
            stale == ExceedsMaxAge(entry, lastCall)
        IN  /\ (stale /\ ~lastCall.allowStale) => lastCall.info.isNull
            /\ (stale /\ lastCall.allowStale) =>
                   IsResultOf(lastCall.info, entry, lastCall) /\ lastCall.info.stale
            /\ ~stale => IsResultOf(lastCall.info, entry, lastCall) /\ ~lastCall.info.stale

\* an entry exactly maxAgeMinutes old was returned as not stale to a caller
\* that does not allow stale entries
C19_Witness ==
    /\ LooksUpCache(lastCall)
    /\ ~lastCall.allowStale
    /\ lastCall.before.valid
    /\ lastCall.maxAgeMinutes > 0
    /\ lastCall.t - lastCall.before.timestamp = lastCall.maxAgeMinutes * MsPerMinute
    /\ ~lastCall.info.isNull
    /\ ~lastCall.info.stale

\* C20 as stated: a cache lookup that returns an entry returns, of all valid
\* entries in the limits cache file and the legacy files, the one with the
\* greatest timestamp.
C20_NewestOfAllEntries ==
    (LooksUpCache(lastCall) /\ ~lastCall.info.isNull) =>
        IsResultOf(lastCall.info, NewestOf(ValidEntries(lastCall)), lastCall)

\* C20: a cache lookup that returns an entry returns that of the limits cache
\* file whenever that file is valid, whatever the legacy files hold; when it is
\* not, it returns the valid legacy entry with the greatest timestamp.
C20_DedicatedThenNewestLegacy ==
    (LooksUpCache(lastCall) /\ ~lastCall.info.isNull) =>
        /\ lastCall.before.valid =>
               IsResultOf(lastCall.info, lastCall.before, lastCall)
        /\ ~lastCall.before.valid =>
               /\ ValidLegacyEntries # {}
               /\ IsResultOf(lastCall.info, NewestOf(ValidLegacyEntries), lastCall)

\* a lookup returned the entry of the limits cache file although a legacy
\* file held a newer one
C20_Witness ==
    /\ LooksUpCache(lastCall)
    /\ lastCall.before.valid
    /\ \E e \in ValidLegacyEntries : e.timestamp > lastCall.before.timestamp
    /\ IsResultOf(lastCall.info, lastCall.before, lastCall)
    /\ ~IsResultOf(lastCall.info, NewestOf(ValidEntries(lastCall)), lastCall)

IsFetch(call) == call.op = "fetchUsageLimits"

\* C21 as stated: fetchUsageLimits returns null exactly when the live fetch
\* did not succeed and either no valid cache entry exists, or the only entry
\* is stale and the caller disallowed staleness.
C21_NullOnlyWithoutAnyEntry ==
    IsFetch(lastCall) =>
        (lastCall.info.isNull <=>
            /\ IsFailedFetch(lastCall)
            /\ \/ ValidEntries(lastCall) = {}
               \/ /\ Cardinality(ValidEntries(lastCall)) = 1
                  /\ \A e \in ValidEntries(lastCall) : ExceedsMaxAge(e, lastCall)
                  /\ ~lastCall.allowStale)

\* C21: fetchUsageLimits returns null exactly when the live fetch did not
\* succeed and the caller disallowed the cache, or no valid cache entry
\* exists, or the entry the lookup reads (that of the limits cache file when
\* valid, else the newest legacy one) is stale and the caller disallowed
\* staleness.
C21_NullOnlyWithoutUsableEntry ==
    IsFetch(lastCall) =>
        (lastCall.info.isNull <=>
            /\ IsFailedFetch(lastCall)
            /\ \/ ~lastCall.allowCache
               \/ ValidEntries(lastCall) = {}
               \/ ExceedsMaxAge(EntryInUse(lastCall), lastCall) /\ ~lastCall.allowStale)

\* a failed fetch returned null under allowCache = false although the cache
\* file held an entry that is not stale
C21_Witness ==
    /\ IsFailedFetch(lastCall)
    /\ ~lastCall.allowCache
    /\ lastCall.before.valid
    /\ ~ExceedsMaxAge(lastCall.before, lastCall)
    /\ lastCall.info.isNull

IsRead(call) ==
    call.op \in {"readLastTranscriptTimestamp", "readSessionStartTimestamp"}

MaxOf(S) == CHOOSE x \in S : \A y \in S : y <= x

\* the timestamps found in the events of a text, wherever in the event
EventTimesIn(text) ==
    LET lines == TrimmedLines(text)
        entries == {JsonParse(lines[k]).entry : k \in {j \in DOMAIN lines : JsonParse(lines[j]).ok}}
    IN  {v \in UNION {{e.timestamp, e.snapshot, e.message, e.data} : e \in entries} : v > 0}

\* the timestamps the lines of a text yield
YieldedIn(text) ==
    LET lines == TrimmedLines(text)
    IN  {TsValue(JsonParse(lines[k]).entry) :
            k \in {j \in DOMAIN lines : /\ JsonParse(lines[j]).ok
                                        /\ YieldsTimestamp(JsonParse(lines[j]).entry)}}

\* the reader reads at most min(size, window) bytes: the last ones for the
\* last timestamp, the first ones for the session start
ReadsWindowOnly(call) ==
    /\ call.range.length <= Min(Len(call.file.bytes), call.window)
    /\ call.file.io = "ok" =>
          /\ call.range.length = Min(Len(call.file.bytes), call.window)
          /\ call.op = "readLastTranscriptTimestamp" =>
                call.range.start + call.range.length = Len(call.file.bytes)
          /\ call.op = "readSessionStartTimestamp" => call.range.start = 0

\* C22 as stated: the reader reads at most min(file size, window) bytes, at
\* the end or at the start of the file, and a timestamp it returns is never
\* later than the latest event time of the file.
C22_NeverLaterThanLatestEvent ==
    IsRead(lastCall) =>
        /\ ReadsWindowOnly(lastCall)
        /\ (lastCall.result.kind = "value" /\ EventTimesIn(lastCall.file.bytes) # {}) =>
               lastCall.result.ts <= MaxOf(EventTimesIn(lastCall.file.bytes))

\* C22: the reader reads at most min(file size, window) bytes, at the end or
\* at the start of the file, and a timestamp it returns is that of an event
\* lying whole inside the window, hence never later than the latest event
\* time of the file, or, when no line of the window yields one, the
\* modification time of the file.
C22_EventInWindowOrMtime ==
    IsRead(lastCall) =>
        /\ ReadsWindowOnly(lastCall)
        /\ lastCall.result.kind = "value" =>
               LET yielded == YieldedIn(BytesOf(lastCall.file, lastCall.range))
               IN  IF yielded # {}
                   THEN /\ lastCall.result.ts \in yielded
                        /\ lastCall.result.ts <= MaxOf(EventTimesIn(lastCall.file.bytes))
                   ELSE lastCall.result.ts = lastCall.file.mtimeMs

\* a window shorter than the last event made the reader return the
\* modification time, which is later than every event of the file
C22_Witness ==
    /\ lastCall.op = "readLastTranscriptTimestamp"
    /\ lastCall.window > 0
    /\ lastCall.range.length = lastCall.window
    /\ lastCall.range.length < Len(lastCall.file.bytes)
    /\ EventTimesIn(lastCall.file.bytes) # {}
    /\ lastCall.result.kind = "value"
    /\ lastCall.result.ts = lastCall.file.mtimeMs
    /\ lastCall.result.ts > MaxOf(EventTimesIn(lastCall.file.bytes))

WindowLines(call) == TrimmedLines(BytesOf(call.file, call.range))

\* C23: a reader returns null when the file cannot be stat'd or opened; the
\* modification time when no line of the window yields a timestamp; and the
\* timestamp of a line that yields one otherwise, the lines that do not parse
\* being passed over.  It returns a time or null in every case.
C23_ReaderFailsSoft ==
    IsRead(lastCall) =>
        /\ lastCall.result.kind \in {"value", "null"}
        /\ lastCall.file.io \in {"noStat", "noOpen"} => lastCall.result = NullValue
        /\ (lastCall.file.io = "ok" /\ YieldedIn(BytesOf(lastCall.file, lastCall.range)) = {}) =>
               lastCall.result = TimeValue(lastCall.file.mtimeMs)
        /\ (lastCall.file.io = "ok" /\ YieldedIn(BytesOf(lastCall.file, lastCall.range)) # {}) =>
               /\ lastCall.result.kind = "value"
               /\ lastCall.result.ts \in YieldedIn(BytesOf(lastCall.file, lastCall.range))

\* the last line of the window did not parse and the reader returned the
\* timestamp of a line before it
C23_Witness ==
    /\ lastCall.op = "readLastTranscriptTimestamp"
    /\ lastCall.file.io = "ok"
    /\ Len(WindowLines(lastCall)) >= 2
    /\ ~JsonParse(WindowLines(lastCall)[Len(WindowLines(lastCall))]).ok
    /\ lastCall.result.kind = "value"
    /\ lastCall.result.ts \in YieldedIn(BytesOf(lastCall.file, lastCall.range))

\* the candidate files of a directory within depth levels, each with its
\* path and modification time: the files that can be stat'd, lie in a
\* readable directory under no skipped one, and are a .jsonl under a
\* projects segment or a .jsonl named like a transcript
RECURSIVE CandidatesIn(_, _, _)
CandidatesIn(node, dirPath, depth) ==
    IF depth < 0 \/ ~node.readable THEN {}
    ELSE UNION {
        LET entry == node.children[k]
            fullPath == Append(dirPath, entry.name)
        IN  IF entry.kind = "dir" /\ ~shouldSkipDir(entry.name)
            THEN CandidatesIn(entry, fullPath, depth - 1)
            ELSE IF /\ entry.kind = "file"
                    /\ entry.statable
                    /\ \/ isProjectsFile(fullPath)
                       \/ looksLikeTranscriptFile(entry.name)
            THEN {[path |-> fullPath, mtimeMs |-> entry.mtimeMs]}
            ELSE {} : k \in DOMAIN node.children}

Candidates(call) ==
    UNION {CandidatesIn(call.dirs[k].node, call.dirs[k].path, call.maxDepth) :
              k \in DOMAIN call.dirs}

\* C24: findLatestTranscriptFile returns null exactly when the base
\* directories hold no candidate within maxDepth levels, and otherwise a
\* candidate whose modification time no candidate exceeds; directories that
\* cannot be read and directories skipped by name add no candidate.
C24_LatestCandidate ==
    lastCall.op = "findLatestTranscriptFile" =>
        IF Candidates(lastCall) = {}
        THEN lastCall.latest = NoLatest
        ELSE /\ lastCall.latest \in Candidates(lastCall)
             /\ \A c \in Candidates(lastCall) : c.mtimeMs <= lastCall.latest.mtimeMs

\* the locator returned a file of a subdirectory that is newer than a
\* candidate found before it and one found after it, with a directory
\* missing and newer files that are no candidates around
C24_Witness ==
    /\ lastCall.op = "findLatestTranscriptFile"
    /\ Len(lastCall.dirs) = 2
    /\ Len(lastCall.latest.path) = 5
    /\ Cardinality(Candidates(lastCall)) >= 3
    /\ \E c \in Candidates(lastCall) : c.mtimeMs < lastCall.latest.mtimeMs
    /\ lastCall.latest.mtimeMs < MaxMtime + 1


IsUpdate == lastCall'.op = "updateUsageHistory" /\ lastCall'.seq # lastCall.seq

\* the dates of the rows ccusage gave to the call
RowDates(call) == {call.ccusage.dailyRows[i].date : i \in DOMAIN call.ccusage.dailyRows}

\* kept is what a trim to keepCount keys leaves of the keys all: no more
\* than keepCount of them, as many as there are to keep, and none of them
\* before a key that was dropped
MostRecentOf(kept, all, keepCount) ==
    /\ kept \subseteq all
    /\ Cardinality(kept) = Min(Cardinality(all), keepCount)
    /\ \A dropped \in all \ kept : \A key \in kept : KeyLess(dropped, key)

\* C25: after every successful updateUsageHistory the daily map written has
\* at most 120 keys and the monthly map at most 24, each key once, and they
\* are the greatest of the keys the maps had before the trim: the days of
\* the file and of the rows, and the months of those days.
C25_TrimmedToMostRecent ==
    [][(IsUpdate /\ lastCall'.ok) =>
          LET days == KeySet(historyFile.daily) \cup RowDates(lastCall')
              months == {MonthOfKey(day) : day \in days}
          IN  /\ Len(historyFile'.daily) <= DailyKeep
              /\ Len(historyFile'.monthly) <= MonthlyKeep
              /\ Len(historyFile'.daily) = Cardinality(KeySet(historyFile'.daily))
              /\ Len(historyFile'.monthly) = Cardinality(KeySet(historyFile'.monthly))
              /\ MostRecentOf(KeySet(historyFile'.daily), days, DailyKeep)
              /\ MostRecentOf(KeySet(historyFile'.monthly), months, MonthlyKeep)]_vars

\* an update given more rows than the daily map keeps, on a file holding
\* more months than the monthly map keeps: both maps were cut
C25_Witness ==
    /\ lastCall.op = "updateUsageHistory" /\ lastCall.ok
    /\ Len(lastCall.ccusage.dailyRows) > DailyKeep
    /\ Len(historyFile.daily) = DailyKeep
    /\ Len(historyFile.monthly) = MonthlyKeep
    /\ \E i \in DOMAIN historyFile.monthly :
           KeyLess(historyFile.monthly[i].key, MonthOfKey(historyFile.daily[1].key))

\* the rows of a call that are for a day
RowsFor(call, day) ==
    {call.ccusage.dailyRows[i] : i \in {j \in DOMAIN call.ccusage.dailyRows :
                                           call.ccusage.dailyRows[j].date = day}}

\* the tokens a row reports, model by model
Reported(row) ==
    IF row.modelBreakdowns # <<>>
    THEN {<<row.modelBreakdowns[i].modelName, row.modelBreakdowns[i].tokens>> :
             i \in DOMAIN row.modelBreakdowns}
    ELSE IF Len(row.modelsUsed) = 1 THEN {<<row.modelsUsed[1], row.tokens>>}
    ELSE {<<(<<"unknown">>), row.tokens>>}

\* the tokens a bucket records, model by model
Recorded(bucket) == {<<bucket.models[i].key, bucket.models[i].value>> : i \in DOMAIN bucket.models}

\* the bucket holds the data of a row of the call, written by the call
WrittenFrom(bucket, rows, call) ==
    /\ bucket.updatedAt = call.t
    /\ bucket.source = "ccusage"
    /\ \E row \in rows : Recorded(bucket) = Reported(row)

\* C26: a successful refresh leaves the bucket of every day before today
\* that had one as it was, whatever the rows say of that day; a bucket kept
\* for today, or for a day before today that had none, holds the data of the
\* rows of this refresh.
C26_ClosedBucketsKept ==
    [][(IsUpdate /\ lastCall'.ok) =>
          LET today == toLocalDateKey(lastCall'.t)
          IN  \A day \in KeySet(historyFile'.daily) :
                  IF KeyLess(day, today) /\ Has(historyFile.daily, day)
                  THEN Get(historyFile'.daily, day) = Get(historyFile.daily, day)
                  ELSE IF RowsFor(lastCall', day) # {}
                  THEN WrittenFrom(Get(historyFile'.daily, day), RowsFor(lastCall', day),
                                   lastCall')
                  ELSE /\ Has(historyFile.daily, day)
                       /\ Get(historyFile'.daily, day) = Get(historyFile.daily, day)]_vars

\* a second refresh, on a later day and with other numbers: a day recorded by
\* the first keeps its numbers though the rows disagree, a day the first did
\* not see is filled in, and today is written
C26_Witness ==
    LET today == toLocalDateKey(lastCall.t)
    IN  /\ lastCall.op = "updateUsageHistory" /\ lastCall.ok /\ lastCall.seq = 2
        /\ \E day \in KeySet(historyFile.daily) :
               /\ KeyLess(day, today)
               /\ Get(historyFile.daily, day).updatedAt < lastCall.t
               /\ RowsFor(lastCall, day) # {}
               /\ \A row \in RowsFor(lastCall, day) :
                      Recorded(Get(historyFile.daily, day)) # Reported(row)
        /\ \E day \in KeySet(historyFile.daily) :
               /\ KeyLess(day, today)
               /\ Get(historyFile.daily, day).updatedAt = lastCall.t
        /\ Has(historyFile.daily, today)
        /\ Get(historyFile.daily, today).updatedAt = lastCall.t

\* C27: a successful refresh leaves the monthly bucket of every month before
\* the current one that had a bucket as it was, as long as it is kept.
C27_PastMonthsKept ==
    [][(IsUpdate /\ lastCall'.ok) =>
          \A month \in KeySet(historyFile.monthly) \cap KeySet(historyFile'.monthly) :
              KeyLess(month, toLocalMonthKey(lastCall'.t))
              => Get(historyFile'.monthly, month) = Get(historyFile.monthly, month)]_vars

\* the entries of a table a model name can be priced by: the one whose key
\* is the name, or else the wildcards whose prefix starts the name
ExactMatches(table, name) == {i \in DOMAIN table : table[i].key = name}
WildcardMatches(table, name) ==
    {i \in DOMAIN table :
        /\ table[i].key[Len(table[i].key)] = "*"
        /\ \E n \in 0..Len(name) : SubSeq(name, 1, n) \o <<"*">> = table[i].key}

\* the rates the claim gives a model name, NoRates when nothing matches
RatesByClaim(table, name) ==
    IF ExactMatches(table, name) # {}
    THEN table[CHOOSE i \in ExactMatches(table, name) : TRUE].rates
    ELSE IF WildcardMatches(table, name) # {}
    THEN table[CHOOSE i \in WildcardMatches(table, name) :
                   \A j \in WildcardMatches(table, name) : i <= j].rates
    ELSE NoRates

\* the cost of the models among the first n of a map that the claim prices
RECURSIVE TotalByClaim(_, _, _)
TotalByClaim(models, table, n) ==
    IF n = 0 THEN 0
    ELSE TotalByClaim(models, table, n - 1)
         + (IF RatesByClaim(table, models[n].key).found
            THEN CostOf(models[n].value, RatesByClaim(table, models[n].key))
            ELSE 0)

IsCost == lastCall.op = "computeCost"

\* C28: computeCost prices every model by the entry whose key is its name,
\* or else by the first entry in table order that ends in '*' and whose
\* prefix starts the name; the models without either are exactly the ones
\* listed as missing, and the total is the cost of the others.
C28_ExactThenFirstWildcard ==
    IsCost =>
        LET table == lastCall.pricing.models
            models == lastCall.models
            unmatched == {i \in DOMAIN models : ~RatesByClaim(table, models[i].key).found}
        IN  /\ {lastCall.cost.missing[i] : i \in DOMAIN lastCall.cost.missing}
                   = {models[i].key : i \in unmatched}
            /\ Len(lastCall.cost.missing) = Cardinality(unmatched)
            /\ lastCall.cost.total = TotalByClaim(models, table, Len(models))

\* a cost computed with a table whose widest wildcard comes first: the first
\* model is one that two wildcards match and is priced by the first of them,
\* and one model is missing
C28_Witness ==
    /\ IsCost
    /\ lastCall.pricing.models = ReorderedModels
    /\ lastCall.cost.missing = << <<"claude-haiku-9">> >>
    /\ Cardinality(WildcardMatches(ReorderedModels, lastCall.models[1].key)) = 2
    /\ lastCall.cost.total > 0

\* a step that is a call of updateUsageHistory: the clock stands still
IsPricingCall == lastCall'.op = "updateUsageHistory" /\ now' = now

\* a time of the pricing file is missing, or more than so many minutes before now
MissingOrOlder(time, minutes) == time = 0 \/ Minutes(now) - time > minutes

\* the fetch of the call gave a page with a row of the table
FetchGaveRows(call) ==
    call.http = "ok" /\ \E r \in call.page : \E i \in DOMAIN PricingRows : r.name = PricingRows[i].name

\* C29: a call fetches the pricing page exactly when the file's updatedAt is
\* missing or more than 30 days old and its lastRefreshAttempt is missing or
\* more than 12 hours old; an attempt whose write lands records its time as
\* lastRefreshAttempt, and as updatedAt when it succeeded, so that the call
\* after a failed attempt makes none within 12 hours and the call after a
\* successful one makes none.
C29_RefreshBackoff ==
    [][IsPricingCall =>
          /\ lastCall'.attempted
                 <=> /\ MissingOrOlder(pricingFile.updatedAt, PricingRefreshDays * MinutesPerDay)
                     /\ MissingOrOlder(pricingFile.lastRefreshAttempt,
                                       PricingRefreshRetryHours * MinutesPerHour)
          /\ (lastCall'.attempted /\ lastCall'.wrote)
                 => /\ pricingFile'.lastRefreshAttempt = Minutes(now)
                    /\ FetchGaveRows(lastCall') => pricingFile'.updatedAt = Minutes(now)
          /\ (lastCall.op = "updateUsageHistory" /\ lastCall.attempted /\ lastCall.wrote)
                 => /\ now - lastCall.t <= PricingRefreshRetryHours * MsPerHour
                           => ~lastCall'.attempted
                    /\ FetchGaveRows(lastCall) => ~lastCall'.attempted]_vars

\* a call exactly 12 hours after a failed attempt, the table still missing
\* or stale: no fetch
C29_Witness ==
    /\ lastCall.op = "updateUsageHistory" /\ ~lastCall.attempted
    /\ lastCall.t = now
    /\ MissingOrOlder(pricingFile.updatedAt, PricingRefreshDays * MinutesPerDay)
    /\ pricingFile.lastRefreshAttempt # 0
    /\ Minutes(now) - pricingFile.lastRefreshAttempt = PricingRefreshRetryHours * MinutesPerHour

\* a call that fetched and got no table: the fetch was not ok or threw, or
\* its page held no row
IsFailedRefresh == IsPricingCall /\ lastCall'.attempted /\ ~FetchGaveRows(lastCall')

\* C30 as stated: a failed refresh leaves the pricing file and the table
\* returned to the caller as they were before the attempt.
C30_FailedRefreshChangesNothing ==
    [][IsFailedRefresh => pricingFile' = pricingFile /\ lastCall'.pricing = pricingFile]_vars

\* C30: a failed refresh leaves the models and updatedAt of the table as
\* they were, in the file and in what is returned; lastRefreshAttempt alone
\* is set to the time of the attempt, in what is returned and, when the write
\* lands, in the file, which is created when there was none.
C30_FailedRefreshKeepsRates ==
    [][IsFailedRefresh =>
          /\ lastCall'.pricing
                 = [pricingFile EXCEPT !.exists = TRUE, !.lastRefreshAttempt = Minutes(now)]
          /\ pricingFile' = IF lastCall'.wrote THEN lastCall'.pricing ELSE pricingFile
          /\ pricingFile'.models = pricingFile.models
          /\ pricingFile'.updatedAt = pricingFile.updatedAt]_vars

\* a fetch that failed on a stale table that has models, its write landed:
\* the file holds the same models and the time of the attempt
C30_Witness ==
    /\ lastCall.op = "updateUsageHistory" /\ lastCall.attempted /\ lastCall.wrote
    /\ ~FetchGaveRows(lastCall)
    /\ lastCall.t = now
    /\ pricingFile.models # <<>>
    /\ pricingFile.lastRefreshAttempt = Minutes(now)
    /\ pricingFile.updatedAt = UpdatedBefore

\* a step of a renderer run: its limits lookup, or the rest of main()
IsRenderStep == lastCall' # lastCall /\ lastCall'.op \in {"renderLimits", "rendered"}

\* C31: the renderer never writes the persisted keepalive state: over every
\* step of a renderer run the state file, and so its lastLaunch, history,
\* pauseUntil and lastReauthOpen, is the same after the step as before.
C31_RendererKeepsState == [][IsRenderStep => stateFile' = stateFile]_vars

\* a renderer run has ended that wrote the limits cache and the usage
\* history and showed a state file holding launches and a pause
C31_Witness ==
    /\ lastCall.op = "rendered"
    /\ lastCall.state = stateFile
    /\ Truthy(stateFile, "lastLaunch")
    /\ Truthy(stateFile, "pauseUntil")
    /\ historyFile.exists /\ historyFile.lastUpdated = now
    /\ limitsCache.valid /\ limitsCache.timestamp = now

\* the ticks started by "Send hello now" whose limits lookup gave the result
\* the renderer had when it printed the menu
HelloNowTicks ==
    {id \in FrameIds :
        /\ id[1] = "menu"
        /\ config["menu"] = parseArgs(RunOnceArgs)
        /\ "fetch" \in FrameOf(id).fx
        /\ FrameOf(id).limitsInfo = lastCall.info}

\* C34: when the renderer has printed an enabled "Send hello now", the tick
\* that action starts, its limits lookup giving the result the renderer
\* had, is not skipped by the limits gate.
C34_EnabledHelloPassesGate ==
    lastCall.op = "rendered" /\ RunOnceArgs \in lastCall.actions
        => \A id \in HelloNowTicks : FrameOf(id).outcome # "skipLimits"

\* the body of a tick of p ends: its finally block has run and the caller,
\* main() or the callback of the timer, goes on
TickEnds(p) ==
    \E i \in 1..Len(frames[p]) :
        frames[p][i].pc = "done" /\ frames'[p] = RemoveAt(frames[p], i)

\* the tick of p that ends threw
TickThrew(p) ==
    \E i \in 1..Len(frames[p]) :
        /\ frames[p][i].pc = "done" /\ frames'[p] = RemoveAt(frames[p], i)
        /\ frames[p][i].outcome = "threw"

\* the interval timer of p calls tick
TimerFires(p) == phase[p] = "timer" /\ nextFire'[p] # nextFire[p]

\* after the end of a tick the process is in its loop, or was run with --once
LoopGoesOn(p) ==
    IF config[p].once THEN phase'[p] = "off" ELSE phase'[p] = "timer"

\* a call of tick by the timer while the flag is down executes a body
FiringRunsBody(p) ==
    TimerFires(p) /\ ~tickInProgress[p]
        => Len(frames'[p]) = Len(frames[p]) + 1 /\ tickInProgress'[p]

\* C32 as stated: whatever the outcome of a tick, a thrown exception
\* included, the flag is false after it ends and the loop goes on, the next
\* firing of the timer executing a body.
C32_NoFailureStopsLoop ==
    [][\A p \in Procs :
          /\ TickEnds(p) => ~tickInProgress'[p] /\ LoopGoesOn(p)
          /\ FiringRunsBody(p)]_vars

\* C32 amended: whatever the outcome, the flag is false after the tick ends;
\* the loop goes on, the next firing of the timer executing a body, after
\* every tick the timer called and after a first tick that did not throw; a
\* first tick that throws ends the process, the timer never being set.
C32_OnlyStartupThrowStopsLoop ==
    [][\A p \in Procs :
          /\ TickEnds(p) => ~tickInProgress'[p]
          /\ TickEnds(p) /\ ~(TickThrew(p) /\ phase[p] = "main") => LoopGoesOn(p)
          /\ TickThrew(p) /\ phase[p] = "main"
                 => phase'[p] = "failed" /\ nextFire'[p] = nextFire[p] /\ frames'[p] = <<>>
          /\ FiringRunsBody(p)]_vars

\* a tick the timer called has thrown and ended, the flag is down and the
\* timer is set; the state file holds a launch of an earlier tick of the loop
C32_Witness ==
    /\ phase["daemon"] = "timer"
    /\ \E i \in 1..Len(frames["daemon"]) :
          /\ frames["daemon"][i].pc = "done"
          /\ frames["daemon"][i].outcome = "threw"
    /\ Truthy(stateFile, "lastLaunch") /\ stateFile.lastLaunch > StartMs

\* a write of the state file by a tick of p at one of the positions given
\* has landed
WriteLands(p, pcs) ==
    \E i \in 1..Len(frames[p]) :
        /\ frames[p][i].pc \in pcs
        /\ Len(frames'[p]) = Len(frames[p])
        /\ frames'[p][i].pc = "done"
        /\ "written" \in frames'[p][i].fx

\* C33: with a tick of the daemon and a pause or resume command of the menu
\* interleaved on the state file no update is lost: the write of a launch
\* leaves pauseUntil as the file holds it, and the write of a pause or a
\* resume leaves lastLaunch and history as the file holds them.
C33_NoLostUpdate ==
    [][/\ WriteLands("daemon", {"writeLaunch"})
           => /\ stateFile'.pauseUntil = stateFile.pauseUntil
              /\ ("pauseUntil" \in stateFile'.has) = ("pauseUntil" \in stateFile.has)
       /\ WriteLands("menu", {"writePause", "writeResume"})
           => /\ stateFile'.lastLaunch = stateFile.lastLaunch
              /\ stateFile'.history = stateFile.history]_vars

\* what a tick that handles a command may have done: read and written the
\* state file
CommandEffects == {"readState", "writeState", "written"}

\* the gates a tick body has passed and the one it ended at, in the order
\* of the code: resume, pause, paused, activity, limits lookup, expired
\* token, limits gate, cooldown, launch
GatesInOrder(f, cfg) ==
    /\ f.fx # {} => "readState" \in f.fx
    /\ cfg.resume
         => /\ f.fx \subseteq CommandEffects
            /\ f.outcome \in {"none", "resumed"}
            /\ f.pc \in {"readState", "writeResume", "done"}
    /\ ~cfg.resume /\ cfg.pauseMinutes > 0
         => /\ f.fx \subseteq CommandEffects
            /\ f.outcome \in {"none", "paused"}
            /\ f.pc \in {"readState", "writePause", "done"}
    /\ f.outcome = "skipPaused"
         => f.fx = {"readState"} /\ NoCommand(cfg) /\ isPaused(f.state, now)
    /\ "activity" \in f.fx \/ f.pc = "activity"
         => NoCommand(cfg) /\ "readState" \in f.fx
    /\ "activity" \in f.fx => ~isPaused(f.state, f.now)
    /\ f.outcome = "skipActive"
         => /\ f.fx = {"readState", "activity"}
            /\ isActive(f.lastActivity, f.now, cfg)
    /\ "fetch" \in f.fx \/ f.pc = "fetch"
         => "activity" \in f.fx /\ ~isActive(f.lastActivity, f.now, cfg)
    /\ "openApp" \in f.fx \/ f.outcome = "skipReauthCooldown"
         => /\ "fetch" \in f.fx /\ "launch" \notin f.fx
            /\ ~f.limitsInfo.isNull
            /\ f.limitsInfo.errorCode = "token_expired"
    /\ "openApp" \in f.fx => ~reauthCooldownActive(f.state, f.now, cfg)
    /\ f.outcome = "skipLimits"
         => /\ f.fx = {"readState", "activity", "fetch"}
            /\ ~f.limitsInfo.isNull
            /\ f.limitsInfo.errorCode # "token_expired"
            /\ ~LookupAllowsLaunch(f.limitsInfo)
    /\ f.outcome = "skipCooldown"
         => /\ f.fx = {"readState", "activity", "fetch"}
            /\ f.limitsInfo.errorCode # "token_expired"
            /\ LookupAllowsLaunch(f.limitsInfo)
            /\ cooldownActive(f.state, f.now, cfg)
    /\ "launch" \in f.fx
         => /\ "fetch" \in f.fx /\ "openApp" \notin f.fx
            /\ f.limitsInfo.errorCode # "token_expired"
            /\ LookupAllowsLaunch(f.limitsInfo)
            /\ ~cooldownActive(f.state, f.now, cfg)

LaunchEffects == {"launch", "spawned", "spawnError"}

\* the lookup of the tick body i of p reported an expired token
ExpiredTick(p, i) ==
    /\ "fetch" \in frames[p][i].fx
    /\ frames[p][i].limitsInfo.errorCode = "token_expired"

LastLaunchEndsHistory(state) ==
    "lastLaunch" \in state.has
        => /\ "history" \in state.has
           /\ state.history # <<>>
           /\ state.lastLaunch = state.history[Len(state.history)]

TimestampPlaces(entry) == <<entry.timestamp, entry.snapshot, entry.message, entry.data>>

FirstPresent(entry) ==
    LET places == TimestampPlaces(entry)
        present == {k \in DOMAIN places : places[k] # 0}
    IN  IF present = {} THEN 0
        ELSE places[CHOOSE k \in present : \A j \in present : k <= j]

\* the line parses as JSON and the first timestamp present in it is valid
CarriesTimestamp(line) ==
    /\ JsonParse(line).ok
    /\ FirstPresent(JsonParse(line).entry) \notin {0, InvalidDate}

\* C37: when a line of the window parses as JSON and carries a valid
\* timestamp, the reader of the latest activity returns the timestamp of the
\* last such line, which within the line is the first present of timestamp,
\* snapshot.timestamp, message.timestamp and data.timestamp; the lines
\* before it have no part in the result.
C37_LastLineFirstPlace ==
    lastCall.op = "readLastTranscriptTimestamp" /\ lastCall.file.io = "ok"
        => LET lines == WindowLines(lastCall)
               good == {k \in DOMAIN lines : CarriesTimestamp(lines[k])}
           IN  good # {}
                 => lastCall.result
                      = TimeValue(FirstPresent(JsonParse(lines[MaxOf(good)]).entry))

\* the window holds three lines: an event with a later timestamp, then an
\* event with three timestamps whose first is returned, then an event whose
\* timestamp is not a date
C37_Witness ==
    /\ lastCall.op = "readLastTranscriptTimestamp"
    /\ lastCall.file.io = "ok"
    /\ LET lines == WindowLines(lastCall)
       IN  /\ Len(lines) = MaxLines
           /\ CarriesTimestamp(lines[1])
           /\ FirstPresent(JsonParse(lines[1]).entry) = 3
           /\ JsonParse(lines[2]).ok
           /\ JsonParse(lines[2]).entry.snapshot = 1
           /\ JsonParse(lines[2]).entry.message = 3
           /\ JsonParse(lines[3]).ok
           /\ JsonParse(lines[3]).entry.timestamp = InvalidDate
    /\ lastCall.result = TimeValue(1)

\* C36: a launch starts the process, waits helloDelaySeconds, writes the
\* priming line once and closes the input stream: the child's input holds
\* at most the one line hello, written once the child was started and not
\* before helloDelaySeconds have passed since; the stream is closed only
\* after the line was written; and what the write or the close throws is
\* caught and goes no further.  A dry run starts no process and writes
\* nothing.
C36_HelloOnceAfterDelay ==
    lastCall.op = "launchClaudeHello"
        => LET child == lastCall.child
           IN  /\ lastCall.dryRun => child = NoChild
               /\ Len(child.stdin) <= 1
               /\ child.stdin # <<>>
                    => /\ child.stdin = <<HelloLine>>
                       /\ child.started /\ child.event # "none"
                       /\ child.writtenAt
                            >= child.startedAt + lastCall.delaySeconds * MsPerSecond
               /\ child.ended => child.stdin = <<HelloLine>>
               /\ ~child.uncaught

\* a launch with the default delay: the child was started, five seconds
\* later the line was written and the stream closed
C36_Witness ==
    /\ lastCall.op = "launchClaudeHello"
    /\ lastCall.delaySeconds = DefaultHelloDelaySeconds
    /\ lastCall.value = "true"
    /\ lastCall.child.event = "spawn"
    /\ lastCall.child.stdin = <<HelloLine>>
    /\ lastCall.child.ended
    /\ lastCall.child.writtenAt = lastCall.child.startedAt + DefaultHelloDelaySeconds * MsPerSecond

\* a write that threw was caught: nothing was written and the stream was
\* not closed
C36_WitnessSwallowed ==
    /\ lastCall.op = "launchClaudeHello"
    /\ lastCall.child.timerFired
    /\ lastCall.child.caught
    /\ lastCall.child.stdin = <<>>

\* updateUsageHistory was run with the pricing cost source and did not stop
\* at missing stats
IsStatsRun ==
    /\ lastCall'.op = "updateUsageHistoryFromStats"
    /\ lastCall'.seq = lastCall.seq + 1
    /\ lastCall'.reason # "stats_missing"

\* the run follows a run that was completed on the same cumulative stats
IsRepeatedRun ==
    /\ IsStatsRun
    /\ lastCall.op = "updateUsageHistoryFromStats"
    /\ lastCall.ok
    /\ lastCall'.models = lastCall.models

\* the delta as the claim has it: against the persisted total, the current
\* value when there is none or the difference is negative
DeltaByClaim(current, persisted) ==
    IF persisted = Undefined \/ current < persisted THEN current
    ELSE current - persisted

\* the tokens recorded for a model in the bucket of a key, none being zeros
BucketTokens(buckets, key, model) ==
    IF Has(buckets, key) /\ Has(Get(buckets, key).models, model)
    THEN Get(Get(buckets, key).models, model)
    ELSE NoTokens

\* a completed run adds to the bucket of a key, for every model of the
\* stats, the deltas against the lastTotals the file held
AddsDeltasTo(before, after, key) ==
    \A i \in DOMAIN lastCall'.models :
        LET model == lastCall'.models[i].key
            current == lastCall'.models[i].value
            persisted == PreviousOf(historyFile.lastTotals, model)
        IN  \A k \in TokenKeys :
                BucketTokens(after, key, model)[k]
                    = BucketTokens(before, key, model)[k]
                        + DeltaByClaim(current[k], persisted[k])

\* C40: with the pricing cost source a completed run adds to the day and
\* month buckets the token deltas against the persisted lastTotals (the
\* current value where the difference is negative), and a run repeated on
\* unchanged cumulative stats adds nothing: the daily and monthly buckets,
\* tokens and cost, are after it what they were after the run before.
C40_RepeatedRunAddsNothing ==
    [][/\ IsStatsRun /\ lastCall'.ok
           => /\ AddsDeltasTo(historyFile.daily, historyFile'.daily,
                              toLocalDateKey(now))
              /\ AddsDeltasTo(historyFile.monthly, historyFile'.monthly,
                              toLocalMonthKey(now))
              /\ historyFile'.lastTotals = lastCall'.models
       /\ IsRepeatedRun
           => /\ historyFile'.daily = historyFile.daily
              /\ historyFile'.monthly = historyFile.monthly]_vars

\* three completed runs on one day: the second, after a reset of the
\* statistics, counted the lower totals as its delta, and the third, on the
\* same stats, added nothing: the day holds 3 million input tokens of the
\* model and its cost
C40_Witness ==
    /\ lastCall.op = "updateUsageHistoryFromStats"
    /\ lastCall.seq = MaxStatsRuns
    /\ lastCall.ok
    /\ now = StartMs
    /\ historyFile.lastTotals = lastCall.models
    /\ lastCall.models = << [key |-> OpusModel, value |-> Tokens(1, 0, 0, 0)] >>
    /\ BucketTokens(historyFile.daily, toLocalDateKey(now), OpusModel) = Tokens(3, 1, 0, 0)
    /\ Get(historyFile.daily, toLocalDateKey(now)).costUSD > 0

====
